---- MODULE Spec2Model ----
(***************************************************************************)
(* Volume modification engine of tidb-operator (pkg/manager/volumes):      *)
(* the phase classification of a claim, the per-pod modification walk,     *)
(* the leader-eviction gate of the TiKV component and the per-cluster      *)
(* Sync pass, together with the environment they run against (the clock,   *)
(* the cluster status, the users editing the desired volumes, the volume   *)
(* subsystem growing the capacity).                                        *)
(*                                                                         *)
(* Annotations are Go maps from strings to strings: they are modelled as   *)
(* functions whose DOMAIN is the set of keys present.  Quantities are      *)
(* whole GiB, their canonical text is "<n>Gi".  The clock counts minutes.  *)
(***************************************************************************)
EXTENDS Integers, Sequences, FiniteSets, TLC

VARIABLES
    pods,       \* the pods of the cluster, in the order the lister returns them
    evicting,   \* names of the pods carrying the evict-leader-for-resize annotation
    pvcs,       \* claim name -> [anno, req, scName, cap]
    desired,    \* member type -> sequence of DesiredVolume
    tc,         \* TidbCluster status: stores, evictLeader, cond, phase
    sts,        \* member type -> the live StatefulSet (or none)
    now,        \* the clock, in minutes
    ticks,      \* how many times the clock has advanced
    edits,      \* how many times a user has edited the desired volumes
    log,        \* what the most recent Sync pass did
    arg,        \* arguments of getVolumePhase or of the delegate when run on its own
    ret,        \* the result, and the count of invocations
    ec2         \* the volume modifications the block-storage provider knows

vars == <<pods, evicting, pvcs, desired, tc, sts, now, ticks, edits, log, arg, ret, ec2>>

----------------------------------------------------------------------------
(* Bounds of the model. *)

\* the clock advances at most this many times
MaxTicks == 2
\* the users edit the desired volumes at most this many times
MaxEdits == 1

(* Program constants, in minutes. *)

\* pvc_modifier.go: defaultModifyWaitingDuration = time.Minute * 1
defaultModifyWaitingDuration == 1
\* ebs_modifier.go: defaultWaitDuration = time.Hour * 6
defaultWaitDuration == 360

\* the clock advances by one minute or by one whole cooldown
TickSteps == {1, defaultWaitDuration}

RECURSIVE ClocksAfter(_)
\* the values the clock can show after at most k advances, starting at minute 1
ClocksAfter(k) ==
    IF k = 0 THEN {1}
    ELSE ClocksAfter(k - 1) \cup {t + d : t \in ClocksAfter(k - 1), d \in TickSteps}

Clocks == ClocksAfter(MaxTicks)

\* revisions the texts of the model can spell
MaxRevision == MaxEdits + 3

annoKeyPVCSpecRevision == "spec.tidb.pingcap.com/revision"
annoKeyPVCSpecStorageClass == "spec.tidb.pingcap.com/storage-class"
annoKeyPVCSpecStorageSize == "spec.tidb.pingcap.com/storage-size"
annoKeyPVCStatusRevision == "status.tidb.pingcap.com/revision"
annoKeyPVCStatusStorageClass == "status.tidb.pingcap.com/storage-class"
annoKeyPVCStatusStorageSize == "status.tidb.pingcap.com/storage-size"
annoKeyPVCLastTransitionTimestamp == "status.tidb.pingcap.com/last-transition-timestamp"

----------------------------------------------------------------------------
(* Text conversions. *)

Digit(d) ==
    CASE d = 0 -> "0" [] d = 1 -> "1" [] d = 2 -> "2" [] d = 3 -> "3"
      [] d = 4 -> "4" [] d = 5 -> "5" [] d = 6 -> "6" [] d = 7 -> "7"
      [] d = 8 -> "8" [] d = 9 -> "9"

RECURSIVE Itoa(_)
\* strconv.Itoa on a natural number
Itoa(n) == IF n < 10 THEN Digit(n) ELSE Itoa(n \div 10) \o Digit(n % 10)

\* strconv.Atoi: [ok, val]; every text that is no decimal numeral is an error
Atoi(str) ==
    IF \E n \in 0..MaxRevision : Itoa(n) = str
    THEN [ok |-> TRUE, val |-> CHOOSE n \in 0..MaxRevision : Itoa(n) = str]
    ELSE [ok |-> FALSE, val |-> 0]

\* the sizes the model uses, in GiB
Sizes == {10, 20}

\* resource.Quantity.String() of a whole number of GiB
QuantityString(q) == Itoa(q) \o "Gi"

\* resource.ParseQuantity: [ok, val]
ParseQuantity(str) ==
    IF \E q \in Sizes : QuantityString(q) = str
    THEN [ok |-> TRUE, val |-> CHOOSE q \in Sizes : QuantityString(q) = str]
    ELSE [ok |-> FALSE, val |-> 0]

\* metav1.Time.Format(time.RFC3339)
FormatRFC3339(t) == "T+" \o Itoa(t) \o "m"

\* time.Parse(time.RFC3339, str): [ok, val]
ParseRFC3339(str) ==
    IF \E t \in Clocks : FormatRFC3339(t) = str
    THEN [ok |-> TRUE, val |-> CHOOSE t \in Clocks : FormatRFC3339(t) = str]
    ELSE [ok |-> FALSE, val |-> 0]

----------------------------------------------------------------------------
(* Go maps. *)

NoAnno == [k \in {} |-> ""]

\* m[k] of a Go map: the zero value "" when the key is absent
Get(m, k) == IF k \in DOMAIN m THEN m[k] ELSE ""

Has(m, k) == k \in DOMAIN m

\* m[k] = v
Put(m, k, v) == [x \in DOMAIN m \cup {k} |-> IF x = k THEN v ELSE m[x]]

----------------------------------------------------------------------------
(* Storage classes and desired volumes. *)

\* a nil *storagev1.StorageClass
NilSC == [nil |-> TRUE, name |-> "", provisioner |-> ""]

SC(name, provisioner) == [nil |-> FALSE, name |-> name, provisioner |-> provisioner]

\* scName := ""; if desired.StorageClass != nil { scName = desired.StorageClass.Name }
desiredScName(d) == IF d.sc.nil THEN "" ELSE d.sc.name

\* getStorageSize(pvc.Spec.Resources.Requests).String()
getStorageSize(pvc) == QuantityString(pvc.req)

----------------------------------------------------------------------------
(* Phase classification. *)

VolumePhasePending == "Pending"
VolumePhasePreparing == "Preparing"
VolumePhaseModifying == "Modifying"
VolumePhaseModified == "Modified"

\* a plausible slip: the spec revision compared with itself
isPVCRevisionChangedSelf(pvc) ==
    Get(pvc.anno, annoKeyPVCSpecRevision) # Get(pvc.anno, annoKeyPVCSpecRevision)

isPVCRevisionChanged(pvc) ==
    LET specRevision == Get(pvc.anno, annoKeyPVCSpecRevision)
        statusRevision == Get(pvc.anno, annoKeyPVCStatusRevision)
    IN  specRevision # statusRevision

\* a plausible slip: the live claim is read even when a status snapshot exists
isPVCStatusMatchedLive(pvc, scName, size) ==
    pvc.scName # scName \/ getStorageSize(pvc) # size

\* true when the claim differs from scName/size (the source names the flag isChanged)
isPVCStatusMatched(pvc, scName, size) ==
    LET oldSc == IF Has(pvc.anno, annoKeyPVCStatusStorageClass)
                 THEN pvc.anno[annoKeyPVCStatusStorageClass]
                 ELSE pvc.scName
        oldSize == IF Has(pvc.anno, annoKeyPVCStatusStorageSize)
                   THEN pvc.anno[annoKeyPVCStatusStorageSize]
                   ELSE getStorageSize(pvc)
    IN  oldSc # scName \/ oldSize # size

needModify(pvc, d) == isPVCStatusMatched(pvc, desiredScName(d), d.size)

\* p.modifiers["aws"]: the registry maps a delegate's name to its MinWaitDuration
getVolumeModifier(modifiers) ==
    IF "aws" \in DOMAIN modifiers
    THEN [nil |-> FALSE, minWait |-> modifiers["aws"]]
    ELSE [nil |-> TRUE, minWait |-> 0]

\* a plausible slip: the comparison of the first version, d > threshold
waitForNextTimeInverted(pvc, modifiers, t) ==
    LET str == Get(pvc.anno, annoKeyPVCLastTransitionTimestamp)
        ts == ParseRFC3339(str)
        m == getVolumeModifier(modifiers)
    IN  /\ Has(pvc.anno, annoKeyPVCLastTransitionTimestamp)
        /\ ts.ok
        /\ IF m.nil THEN t - ts.val > defaultModifyWaitingDuration
                    ELSE t - ts.val > m.minWait

waitForNextTime(pvc, modifiers, t) ==
    LET str == Get(pvc.anno, annoKeyPVCLastTransitionTimestamp)
        ts == ParseRFC3339(str)
        d == t - ts.val
        m == getVolumeModifier(modifiers)
    IN  /\ Has(pvc.anno, annoKeyPVCLastTransitionTimestamp)
        /\ ts.ok
        /\ IF m.nil THEN d < defaultModifyWaitingDuration
                    ELSE d < m.minWait

getVolumePhase(pvc, d, modifiers, t) ==
    IF isPVCRevisionChanged(pvc) THEN VolumePhaseModifying
    ELSE IF ~needModify(pvc, d) THEN VolumePhaseModified
    ELSE IF waitForNextTime(pvc, modifiers, t) THEN VolumePhasePending
    ELSE VolumePhasePreparing

----------------------------------------------------------------------------
(* One Sync pass is one step.  Its working state s carries the objects it  *)
(* has written so far: [pvcs, evicting, cond, sts, n, dead, events].       *)
(* n counts the external calls made; in.fault makes the call number        *)
(* in.fault.at return an error ("err") or makes the controller die right   *)
(* after it ("crash"); s.dead says the pass has stopped.  in.dres gives,   *)
(* per claim, what the delegate answers if it is called.                   *)

\* the delegates NewPodVolumeModifier registers, with their MinWaitDuration
Modifiers == [x \in {"aws"} |-> defaultWaitDuration]

Ev(op, pod, claim, size, sc, res, pvc) ==
    [op |-> op, pod |-> pod, claim |-> claim, size |-> size, sc |-> sc,
     res |-> res, pvc |-> pvc]

Fails(s, in) == in.fault.kind = "err" /\ in.fault.at = s.n + 1

Crashes(s, in) == in.fault.kind = "crash" /\ in.fault.at = s.n + 1

\* KubeClientset.CoreV1().PersistentVolumeClaims(ns).Update: [s, ok]
UpdatePVC(s, in, pod, c, new, op) ==
    IF Fails(s, in)
    THEN [s |-> [s EXCEPT !.n = @ + 1,
                          !.events = Append(@, Ev(op, pod.id, c, "", "", "err", s.pvcs[c]))],
          ok |-> FALSE]
    ELSE [s |-> [s EXCEPT !.n = @ + 1,
                          !.pvcs[c] = new,
                          !.dead = Crashes(s, in),
                          !.events = Append(@, Ev(op, pod.id, c, "", "", "ok", new))],
          ok |-> TRUE]

\* a plausible slip: the revision skips a number
upgradeRevisionSkip(anno) ==
    LET old == Atoi(Get(anno, annoKeyPVCSpecRevision))
        rev == IF Has(anno, annoKeyPVCSpecRevision)
               THEN (IF old.ok THEN old.val ELSE 0) + 2
               ELSE 2
    IN  Put(anno, annoKeyPVCSpecRevision, Itoa(rev))

upgradeRevision(anno) ==
    LET old == Atoi(Get(anno, annoKeyPVCSpecRevision))
        rev == IF Has(anno, annoKeyPVCSpecRevision)
               THEN (IF old.ok THEN old.val ELSE 0) + 1
               ELSE 1
    IN  Put(anno, annoKeyPVCSpecRevision, Itoa(rev))

\* a plausible slip: the old size is always read from the live claim
isPVCSpecMatchedLive(pvc, scName, size) ==
    Get(pvc.anno, annoKeyPVCSpecStorageClass) # scName \/ getStorageSize(pvc) # size

\* true when the spec snapshot differs from scName/size (isChanged in the source)
isPVCSpecMatched(pvc, scName, size) ==
    LET oldSc == Get(pvc.anno, annoKeyPVCSpecStorageClass)
        oldSize == IF Has(pvc.anno, annoKeyPVCSpecStorageSize)
                   THEN pvc.anno[annoKeyPVCSpecStorageSize]
                   ELSE getStorageSize(pvc)
    IN  oldSc # scName \/ oldSize # size

\* a plausible slip: the snapshot also asks for the size on the live claim
snapshotStorageClassAndSizeLive(pvc, scName, size) ==
    [pvc |-> [pvc EXCEPT !.anno = Put(Put(@, annoKeyPVCSpecStorageClass, scName),
                                      annoKeyPVCSpecStorageSize, size),
                         !.req = IF ParseQuantity(size).ok THEN ParseQuantity(size).val ELSE @],
     isChanged |-> isPVCSpecMatched(pvc, scName, size)]

\* [pvc, isChanged]
snapshotStorageClassAndSize(pvc, scName, size) ==
    [pvc |-> [pvc EXCEPT !.anno = Put(Put(@, annoKeyPVCSpecStorageClass, scName),
                                      annoKeyPVCSpecStorageSize, size)],
     isChanged |-> isPVCSpecMatched(pvc, scName, size)]

setLastTransitionTimestamp(pvc, t) ==
    [pvc EXCEPT !.anno = Put(@, annoKeyPVCLastTransitionTimestamp, FormatRFC3339(t))]

\* the claim modifyPVCAnnoSpec sends to the API server
specSnapshotOf(pvc, d, shouldEvict, t) ==
    LET snap == snapshotStorageClassAndSize(pvc, desiredScName(d), d.size)
        bumped == IF snap.isChanged
                  THEN [snap.pvc EXCEPT !.anno = upgradeRevision(@)]
                  ELSE snap.pvc
    IN  IF ~shouldEvict THEN setLastTransitionTimestamp(bumped, t) ELSE bumped

\* a plausible slip: the snapshot is stamped whatever the component
modifyPVCAnnoSpecStamped(s, in, pod, vol, shouldEvict) ==
    UpdatePVC(s, in, pod, vol.claim,
              specSnapshotOf(s.pvcs[vol.claim], vol.desired, FALSE, now), "spec")

\* [s, ok]
modifyPVCAnnoSpec(s, in, pod, vol, shouldEvict) ==
    UpdatePVC(s, in, pod, vol.claim,
              specSnapshotOf(s.pvcs[vol.claim], vol.desired, shouldEvict, now), "spec")

\* [s, ok]
modifyPVCAnnoSpecLastTransitionTimestamp(s, in, pod, vol) ==
    UpdatePVC(s, in, pod, vol.claim,
              setLastTransitionTimestamp(s.pvcs[vol.claim], now), "ts")

\* the delegate is called with a copy of the claim that requests the desired
\* size, and with the desired storage class: [s, wait, err].  vol.Desired.Size
\* is read through the pointer, nil for a volume without a desired volume
modifyVolume(s, in, pod, vol) ==
    LET m == getVolumeModifier(Modifiers)
        q == ParseQuantity(vol.desired.size)
        c == vol.claim
    IN  IF m.nil \/ vol.desired.nil
        THEN [s |-> [s EXCEPT !.dead = TRUE,
                              !.events = Append(@, Ev("panic", pod.id, c, "", "", "", s.pvcs[c]))],
              wait |-> FALSE, err |-> TRUE]
        ELSE IF ~q.ok THEN [s |-> s, wait |-> FALSE, err |-> TRUE]
        ELSE IF Fails(s, in)
        THEN [s |-> [s EXCEPT !.n = @ + 1,
                              !.events = Append(@, Ev("delegate", pod.id, c, vol.desired.size,
                                                      desiredScName(vol.desired), "err",
                                                      s.pvcs[c]))],
              wait |-> FALSE, err |-> TRUE]
        ELSE [s |-> [s EXCEPT !.n = @ + 1,
                              !.dead = Crashes(s, in),
                              !.events = Append(@, Ev("delegate", pod.id, c, vol.desired.size,
                                                      desiredScName(vol.desired), in.dres[c],
                                                      s.pvcs[c]))],
              wait |-> in.dres[c] = "wait", err |-> FALSE]

\* a plausible slip: the capacity is not looked at
syncPVCSizeNoCapacity(s, in, pod, vol) ==
    LET pvc == s.pvcs[vol.claim]
        q == ParseQuantity(vol.desired.size)
    IN  IF getStorageSize(pvc) = vol.desired.size
        THEN [s |-> s, synced |-> TRUE, err |-> FALSE]
        ELSE IF ~q.ok THEN [s |-> s, synced |-> FALSE, err |-> TRUE]
        ELSE LET r == UpdatePVC(s, in, pod, vol.claim, [pvc EXCEPT !.req = q.val], "size")
             IN  [s |-> r.s, synced |-> FALSE, err |-> ~r.ok]

\* a plausible slip: the update of the requested size counts as synced
syncPVCSizeSynced(s, in, pod, vol) ==
    LET pvc == s.pvcs[vol.claim]
        capacity == QuantityString(pvc.cap)
        requestSize == QuantityString(pvc.req)
        q == ParseQuantity(vol.desired.size)
    IN  IF requestSize = vol.desired.size /\ capacity = vol.desired.size
        THEN [s |-> s, synced |-> TRUE, err |-> FALSE]
        ELSE IF requestSize = vol.desired.size
        THEN [s |-> s, synced |-> FALSE, err |-> FALSE]
        ELSE IF ~q.ok THEN [s |-> s, synced |-> FALSE, err |-> TRUE]
        ELSE LET r == UpdatePVC(s, in, pod, vol.claim, [pvc EXCEPT !.req = q.val], "size")
             IN  [s |-> r.s, synced |-> r.ok, err |-> ~r.ok]

\* [s, synced, err]
syncPVCSize(s, in, pod, vol) ==
    LET pvc == s.pvcs[vol.claim]
        capacity == QuantityString(pvc.cap)
        requestSize == QuantityString(pvc.req)
        q == ParseQuantity(vol.desired.size)
    IN  IF requestSize = vol.desired.size /\ capacity = vol.desired.size
        THEN [s |-> s, synced |-> TRUE, err |-> FALSE]
        ELSE IF requestSize = vol.desired.size
        THEN [s |-> s, synced |-> FALSE, err |-> FALSE]
        ELSE IF ~q.ok THEN [s |-> s, synced |-> FALSE, err |-> TRUE]
        ELSE LET r == UpdatePVC(s, in, pod, vol.claim, [pvc EXCEPT !.req = q.val], "size")
             IN  [s |-> r.s, synced |-> FALSE, err |-> ~r.ok]

\* a plausible slip: the revision is not copied with the class and the size
statusSnapshotOfNoRevision(pvc) ==
    [pvc EXCEPT !.anno =
        Put(Put(@, annoKeyPVCStatusStorageClass, Get(pvc.anno, annoKeyPVCSpecStorageClass)),
            annoKeyPVCStatusStorageSize, Get(pvc.anno, annoKeyPVCSpecStorageSize))]

\* a plausible slip: the status revision is the upgraded spec revision
statusSnapshotOfNext(pvc) ==
    [pvc EXCEPT !.anno =
        Put(Put(Put(@, annoKeyPVCStatusRevision,
                    Get(upgradeRevision(pvc.anno), annoKeyPVCSpecRevision)),
                annoKeyPVCStatusStorageClass, Get(pvc.anno, annoKeyPVCSpecStorageClass)),
            annoKeyPVCStatusStorageSize, Get(pvc.anno, annoKeyPVCSpecStorageSize))]

\* the claim modifyPVCAnnoStatus sends to the API server
statusSnapshotOf(pvc) ==
    [pvc EXCEPT !.anno =
        Put(Put(Put(@, annoKeyPVCStatusRevision, Get(pvc.anno, annoKeyPVCSpecRevision)),
                annoKeyPVCStatusStorageClass, Get(pvc.anno, annoKeyPVCSpecStorageClass)),
            annoKeyPVCStatusStorageSize, Get(pvc.anno, annoKeyPVCSpecStorageSize))]

\* [s, ok]
modifyPVCAnnoStatus(s, in, pod, vol) ==
    UpdatePVC(s, in, pod, vol.claim, statusSnapshotOf(s.pvcs[vol.claim]), "status")

----------------------------------------------------------------------------
(* The walk over the volumes of one pod. *)

\* a claim that stands for "no claim" in the events that concern none
NoPVC == [anno |-> NoAnno, req |-> 0, scName |-> "", cap |-> 0]

\* a nil *DesiredVolume
NilDesired == [nil |-> TRUE, name |-> "", size |-> "", sc |-> NilSC]

Desired(name, size, sc) == [nil |-> FALSE, name |-> name, size |-> size, sc |-> sc]

getDesiredVolumeByName(vs, name) ==
    IF \E i \in 1..Len(vs) : vs[i].name = name
    THEN vs[CHOOSE i \in 1..Len(vs) :
                /\ vs[i].name = name
                /\ \A j \in 1..(i - 1) : vs[j].name # name]
    ELSE NilDesired

\* the claim-backed volumes of the pod, each with its desired volume and phase.
\* A volume without a desired volume is classified all the same: needModify
\* then dereferences the nil pointer, unless the revisions already differ.
getActualVolumes(claims, pod, vs) ==
    LET backed == SelectSeq(pod.vols, LAMBDA v : v.claim # "")
        deref(v) == /\ getDesiredVolumeByName(vs, v.name).nil
                    /\ ~isPVCRevisionChanged(claims[v.claim])
    IN  [panic |-> \E i \in 1..Len(backed) : deref(backed[i]),
         vols |-> [i \in 1..Len(backed) |->
                    LET d == getDesiredVolumeByName(vs, backed[i].name)
                    IN  [name |-> backed[i].name,
                         claim |-> backed[i].claim,
                         desired |-> d,
                         phase |-> IF deref(backed[i]) THEN "Unknown"
                                   ELSE getVolumePhase(claims[backed[i].claim], d,
                                                       Modifiers, now)]]]

\* a plausible slip: the walk goes on although the delegate asks to wait
ModifyCaseModifyingIgnoreWait(acc, in, pod, vol) ==
    LET r1 == modifyVolume(acc.s, in, pod, vol)
    IN  IF r1.s.dead THEN [acc EXCEPT !.s = r1.s]
        ELSE IF r1.err THEN [acc EXCEPT !.s = r1.s, !.errs = @ + 1]
        ELSE LET r2 == syncPVCSize(r1.s, in, pod, vol)
             IN  IF r2.s.dead THEN [acc EXCEPT !.s = r2.s]
                 ELSE IF r2.err THEN [acc EXCEPT !.s = r2.s, !.errs = @ + 1]
                 ELSE IF ~r2.synced THEN [acc EXCEPT !.s = r2.s, !.completed = FALSE]
                 ELSE LET r3 == modifyPVCAnnoStatus(r2.s, in, pod, vol)
                      IN  IF r3.ok THEN [acc EXCEPT !.s = r3.s]
                          ELSE [acc EXCEPT !.s = r3.s, !.errs = @ + 1]

\* case VolumePhaseModifying of Modify; acc is [s, completed, errs]
ModifyCaseModifying(acc, in, pod, vol) ==
    LET r1 == modifyVolume(acc.s, in, pod, vol)
    IN  IF r1.s.dead THEN [acc EXCEPT !.s = r1.s]
        ELSE IF r1.err THEN [acc EXCEPT !.s = r1.s, !.errs = @ + 1]
        ELSE IF r1.wait THEN [acc EXCEPT !.s = r1.s, !.completed = FALSE]
        ELSE LET r2 == syncPVCSize(r1.s, in, pod, vol)
             IN  IF r2.s.dead THEN [acc EXCEPT !.s = r2.s]
                 ELSE IF r2.err THEN [acc EXCEPT !.s = r2.s, !.errs = @ + 1]
                 ELSE IF ~r2.synced THEN [acc EXCEPT !.s = r2.s, !.completed = FALSE]
                 ELSE LET r3 == modifyPVCAnnoStatus(r2.s, in, pod, vol)
                      IN  IF r3.ok THEN [acc EXCEPT !.s = r3.s]
                          ELSE [acc EXCEPT !.s = r3.s, !.errs = @ + 1]

\* case VolumePhaseWaitForLeaderEviction of Modify, entered by fallthrough.
\* notEvicted is the local the source names isEvicted: !isLeaderEvictedOrTimeout
ModifyCaseWaitForLeaderEviction(acc, in, pod, vol, shouldEvictLeader, notEvicted) ==
    IF ~shouldEvictLeader THEN ModifyCaseModifying(acc, in, pod, vol)
    ELSE IF notEvicted THEN [acc EXCEPT !.completed = FALSE]
    ELSE LET r == modifyPVCAnnoSpecLastTransitionTimestamp(acc.s, in, pod, vol)
         IN  IF r.s.dead THEN [acc EXCEPT !.s = r.s]
             ELSE IF ~r.ok THEN [acc EXCEPT !.s = r.s, !.errs = @ + 1]
             ELSE ModifyCaseModifying([acc EXCEPT !.s = r.s], in, pod, vol)

\* case VolumePhasePreparing of Modify
ModifyCasePreparing(acc, in, pod, vol, shouldEvictLeader, notEvicted) ==
    LET r == modifyPVCAnnoSpec(acc.s, in, pod, vol, shouldEvictLeader)
    IN  IF r.s.dead THEN [acc EXCEPT !.s = r.s]
        ELSE IF ~r.ok THEN [acc EXCEPT !.s = r.s, !.errs = @ + 1]
        ELSE ModifyCaseWaitForLeaderEviction([acc EXCEPT !.s = r.s], in, pod, vol,
                                             shouldEvictLeader, notEvicted)

\* a plausible slip: every phase but Preparing is handled as Modifying
ModifySwitchNoSkip(acc, in, pod, vol, shouldEvictLeader, notEvicted) ==
    CASE vol.phase = VolumePhasePreparing ->
            ModifyCasePreparing(acc, in, pod, vol, shouldEvictLeader, notEvicted)
      [] OTHER ->
            ModifyCaseModifying(acc, in, pod, vol)

\* the body of the loop of Modify: the switch on vol.Phase
ModifySwitch(acc, in, pod, vol, shouldEvictLeader, notEvicted) ==
    CASE vol.phase = VolumePhasePreparing ->
            ModifyCasePreparing(acc, in, pod, vol, shouldEvictLeader, notEvicted)
      [] vol.phase = VolumePhaseModifying ->
            ModifyCaseModifying(acc, in, pod, vol)
      [] OTHER -> acc

RECURSIVE ModifyFrom(_, _, _, _, _, _, _)
ModifyFrom(acc, in, pod, actual, i, shouldEvictLeader, notEvicted) ==
    IF i > Len(actual) \/ acc.s.dead THEN acc
    ELSE ModifyFrom(ModifySwitch(acc, in, pod, actual[i], shouldEvictLeader, notEvicted),
                    in, pod, actual, i + 1, shouldEvictLeader, notEvicted)

\* a plausible slip: the timeout of the eviction is not looked at
isLeaderEvictedNoTimeout(status, pod, t) ==
    IF pod.id \in DOMAIN status.stores
    THEN status.stores[pod.id].leaderCount = 0
    ELSE TRUE

\* store.PodName == pod.Name: the cluster status lists at most one store per pod
isLeaderEvictedOrTimeout(status, pod, t) ==
    IF pod.id \in DOMAIN status.stores
    THEN \/ status.stores[pod.id].leaderCount = 0
         \/ /\ pod.id \in DOMAIN status.evictLeader
            /\ status.evictLeader[pod.id].beginTime # 0
            /\ t - status.evictLeader[pod.id].beginTime > status.evictLeaderTimeout
    ELSE TRUE

\* [s, completed, errs]
Modify(s, in, pod, actual, shouldEvictLeader) ==
    LET notEvicted == IF shouldEvictLeader
                      THEN ~isLeaderEvictedOrTimeout(tc, pod, now)
                      ELSE TRUE
    IN  ModifyFrom([s |-> s, completed |-> TRUE, errs |-> 0], in, pod, actual, 1,
                   shouldEvictLeader, notEvicted)

\* records what Modify returns for the pod: (completed, aggregate of errs)
ModifyResult(r, pod) ==
    [r EXCEPT !.s.events =
        Append(@, Ev("modify", pod.id, "", IF r.errs > 0 THEN "error" ELSE "", "",
                     IF r.s.dead THEN "aborted"
                     ELSE IF r.completed THEN "completed" ELSE "incomplete",
                     NoPVC))]

----------------------------------------------------------------------------
(* The leader-eviction gate. *)

\* [cond, changed]
ensureTiKVLeaderEvictionCondition(cond, status) ==
    [cond |-> status, changed |-> cond # status]

isTiKVStoreUp(status, pod) ==
    pod.id \in DOMAIN status.stores => status.stores[pod.id].state = "Up"

isLeaderEvictionFinished(status, pod) == pod.id \notin DOMAIN status.evictLeader

isLeaderEvicting(s, pod) == pod.id \in s.evicting

\* KubeClientset.CoreV1().Pods(ns).Update: [s, ok]
UpdatePod(s, in, pod, marked, op) ==
    IF Fails(s, in)
    THEN [s |-> [s EXCEPT !.n = @ + 1,
                          !.events = Append(@, Ev(op, pod.id, "", "", "", "err", NoPVC))],
          ok |-> FALSE]
    ELSE [s |-> [s EXCEPT !.n = @ + 1,
                          !.evicting = IF marked THEN @ \cup {pod.id} ELSE @ \ {pod.id},
                          !.dead = Crashes(s, in),
                          !.events = Append(@, Ev(op, pod.id, "", "", "", "ok", NoPVC))],
          ok |-> TRUE]

\* a plausible slip: the marker is written without looking for it first
evictLeaderAlways(s, in, pod) ==
    LET r == UpdatePod(s, in, pod, TRUE, "evict")
    IN  [s |-> r.s, err |-> IF r.ok THEN "" ELSE "add leader eviction annotation failed"]

\* a plausible slip: the test of the marker is inverted
evictLeaderInverted(s, in, pod) ==
    IF ~isLeaderEvicting(s, pod) THEN [s |-> s, err |-> ""]
    ELSE LET r == UpdatePod(s, in, pod, TRUE, "evict")
         IN  [s |-> r.s, err |-> IF r.ok THEN "" ELSE "add leader eviction annotation failed"]

\* [s, err]
evictLeader(s, in, pod) ==
    IF isLeaderEvicting(s, pod) THEN [s |-> s, err |-> ""]
    ELSE LET r == UpdatePod(s, in, pod, TRUE, "evict")
         IN  [s |-> r.s, err |-> IF r.ok THEN "" ELSE "add leader eviction annotation failed"]

\* [s, err]
endEvictLeader(s, in, pod) ==
    LET r == IF isLeaderEvicting(s, pod)
             THEN UpdatePod(s, in, pod, FALSE, "endEvict")
             ELSE [s |-> s, ok |-> TRUE]
    IN  IF ~r.ok THEN [s |-> r.s, err |-> "add leader eviction annotation failed"]
        ELSE IF r.s.dead THEN [s |-> r.s, err |-> "aborted"]
        ELSE IF ~isLeaderEvictionFinished(tc, pod)
        THEN [s |-> r.s, err |-> "wait for leader eviction finished"]
        ELSE [s |-> r.s, err |-> ""]

----------------------------------------------------------------------------
(* The per-component pass. *)

\* PodVolumeModifier.ShouldModify: some volume is Preparing or Modifying
ShouldModify(actual) ==
    \E i \in 1..Len(actual) :
        actual[i].phase \in {VolumePhasePreparing, VolumePhaseModifying}

\* PodVolumeModifier.Modify(actual) error, from what the walk returns
ModifyErr(r) ==
    IF r.s.dead THEN "aborted"
    ELSE IF r.errs > 0 THEN "modify failed"
    ELSE IF ~r.completed THEN "wait for volume modification completed"
    ELSE ""

SetCond(s, status) ==
    [s EXCEPT !.cond = status,
              !.events = Append(@, Ev("cond", "", "", "", "", status, NoPVC))]

\* a plausible slip: the pod is marked without raising the cluster condition
EvictionGateNoCondition(s, in, ctx, pod, isNeed) ==
    IF ~ctx.shouldEvict THEN [s |-> s, err |-> "", next |-> TRUE]
    ELSE IF ~isNeed
    THEN LET r == endEvictLeader(s, in, pod)
         IN  IF r.err # "" THEN [s |-> r.s, err |-> r.err, next |-> FALSE]
             ELSE IF ~isTiKVStoreUp(tc, pod)
             THEN [s |-> r.s, err |-> "wait for tikv store up", next |-> FALSE]
             ELSE [s |-> r.s, err |-> "", next |-> FALSE]
    ELSE IF ~isLeaderEvictedOrTimeout(tc, pod, now)
    THEN LET r == evictLeader(s, in, pod)
         IN  IF r.err # "" THEN [s |-> r.s, err |-> r.err, next |-> FALSE]
             ELSE IF r.s.dead THEN [s |-> r.s, err |-> "aborted", next |-> FALSE]
             ELSE [s |-> r.s, err |-> "wait for leader eviction completed",
                   next |-> FALSE]
    ELSE [s |-> s, err |-> "", next |-> TRUE]

\* a plausible slip: the pod is marked in the pass that raises the condition
EvictionGateFlipAndMark(s, in, ctx, pod, isNeed) ==
    IF ~ctx.shouldEvict THEN [s |-> s, err |-> "", next |-> TRUE]
    ELSE IF ~isNeed
    THEN LET r == endEvictLeader(s, in, pod)
         IN  IF r.err # "" THEN [s |-> r.s, err |-> r.err, next |-> FALSE]
             ELSE IF ~isTiKVStoreUp(tc, pod)
             THEN [s |-> r.s, err |-> "wait for tikv store up", next |-> FALSE]
             ELSE [s |-> r.s, err |-> "", next |-> FALSE]
    ELSE IF ~isLeaderEvictedOrTimeout(tc, pod, now)
    THEN LET s1 == IF ensureTiKVLeaderEvictionCondition(s.cond, "True").changed
                   THEN SetCond(s, "True") ELSE s
             r == evictLeader(s1, in, pod)
         IN  IF r.err # "" THEN [s |-> r.s, err |-> r.err, next |-> FALSE]
             ELSE IF r.s.dead THEN [s |-> r.s, err |-> "aborted", next |-> FALSE]
             ELSE [s |-> r.s, err |-> "wait for leader eviction completed",
                   next |-> FALSE]
    ELSE [s |-> s, err |-> "", next |-> TRUE]

\* the part of the loop body of tryToModifyPVC that guards Modify:
\* [s, err, next] where next says the loop goes on to Modify
EvictionGate(s, in, ctx, pod, isNeed) ==
    IF ~ctx.shouldEvict THEN [s |-> s, err |-> "", next |-> TRUE]
    ELSE IF ~isNeed
    THEN LET r == endEvictLeader(s, in, pod)
         IN  IF r.err # "" THEN [s |-> r.s, err |-> r.err, next |-> FALSE]
             ELSE IF ~isTiKVStoreUp(tc, pod)
             THEN [s |-> r.s, err |-> "wait for tikv store up", next |-> FALSE]
             ELSE [s |-> r.s, err |-> "", next |-> FALSE]
    ELSE IF ~isLeaderEvictedOrTimeout(tc, pod, now)
    THEN IF ensureTiKVLeaderEvictionCondition(s.cond, "True").changed
         THEN [s |-> SetCond(s, "True"), err |-> "try to evict leader", next |-> FALSE]
         ELSE LET r == evictLeader(s, in, pod)
              IN  IF r.err # "" THEN [s |-> r.s, err |-> r.err, next |-> FALSE]
                  ELSE IF r.s.dead THEN [s |-> r.s, err |-> "aborted", next |-> FALSE]
                  ELSE [s |-> r.s, err |-> "wait for leader eviction completed",
                        next |-> FALSE]
    ELSE [s |-> s, err |-> "", next |-> TRUE]

RECURSIVE tryToModifyPVCFrom(_, _, _, _)
\* the loop of tryToModifyPVC from the i-th pod on, and what follows it: [s, err]
tryToModifyPVCFrom(s, in, ctx, i) ==
    IF s.dead THEN [s |-> s, err |-> "aborted"]
    ELSE IF i > Len(ctx.pods)
    THEN IF ctx.shouldEvict /\ ensureTiKVLeaderEvictionCondition(s.cond, "False").changed
         THEN [s |-> SetCond(s, "False"), err |-> "try to stop evicting leader"]
         ELSE [s |-> s, err |-> ""]
    ELSE LET pod == ctx.pods[i]
             av == getActualVolumes(s.pvcs, pod, ctx.desiredVolumes)
             isNeed == ShouldModify(av.vols)
             g == EvictionGate(s, in, ctx, pod, isNeed)
         IN  IF av.panic
             THEN [s |-> [s EXCEPT !.dead = TRUE,
                                   !.events = Append(@, Ev("panic", pod.id, "", "", "", "",
                                                           NoPVC))],
                   err |-> "aborted"]
             ELSE IF g.err # "" THEN [s |-> g.s, err |-> g.err]
             ELSE IF ~g.next \/ ~isNeed THEN tryToModifyPVCFrom(g.s, in, ctx, i + 1)
             ELSE LET r == ModifyResult(Modify(g.s, in, pod, av.vols, ctx.shouldEvict), pod)
                  IN  IF ModifyErr(r) # "" THEN [s |-> r.s, err |-> ModifyErr(r)]
                      ELSE tryToModifyPVCFrom(r.s, in, ctx, i + 1)

tryToModifyPVC(s, in, ctx) == tryToModifyPVCFrom(s, in, ctx, 1)

----------------------------------------------------------------------------
(* The StatefulSet template comparison. *)

\* [panic, matched]: sc.Name is read even when sc is nil
isStorageClassMatched(sc, scName) ==
    IF sc.nil /\ scName = "" THEN [panic |-> FALSE, matched |-> TRUE]
    ELSE IF sc.nil THEN [panic |-> TRUE, matched |-> FALSE]
    ELSE [panic |-> FALSE, matched |-> sc.name = scName]

RECURSIVE isStatefulSetSyncedFrom(_, _, _)
\* the loop over the volume claim templates: "synced", "unsynced" or "panic"
isStatefulSetSyncedFrom(templates, vs, i) ==
    IF i > Len(templates) THEN "synced"
    ELSE LET d == getDesiredVolumeByName(vs, templates[i].name)
             m == isStorageClassMatched(d.sc, templates[i].scName)
         IN  IF d.nil THEN isStatefulSetSyncedFrom(templates, vs, i + 1)
             ELSE IF d.size # QuantityString(templates[i].size) THEN "unsynced"
             ELSE IF m.panic THEN "panic"
             ELSE IF ~m.matched THEN "unsynced"
             ELSE isStatefulSetSyncedFrom(templates, vs, i + 1)

\* "synced", "unsynced", "panic", or "notfound" when the lister has no such object
isStatefulSetSynced(s, ctx) ==
    IF ~s.sts[ctx.mt].present THEN "notfound"
    ELSE isStatefulSetSyncedFrom(s.sts[ctx.mt].templates, ctx.desiredVolumes, 1)

\* a plausible slip: a StatefulSet the lister does not find is taken as synced
tryToRecreateSTSIgnoreNotFound(s, in, ctx) ==
    LET isSynced == isStatefulSetSynced(s, ctx)
    IN  CASE isSynced \in {"notfound", "synced"} -> [s |-> s, err |-> ""]
          [] isSynced = "panic" ->
                [s |-> [s EXCEPT !.dead = TRUE,
                                 !.events = Append(@, Ev("panic", "", "", "", "", ctx.mt,
                                                         NoPVC))],
                 err |-> "aborted"]
          [] OTHER ->
                IF Fails(s, in)
                THEN [s |-> [s EXCEPT !.n = @ + 1,
                                      !.events = Append(@, Ev("deleteSts", "", "", "", "",
                                                              "err", NoPVC))],
                      err |-> "delete sts failed"]
                ELSE [s |-> [s EXCEPT !.n = @ + 1,
                                      !.sts[ctx.mt].present = FALSE,
                                      !.dead = Crashes(s, in),
                                      !.events = Append(@, Ev("deleteSts", "", "", "", "",
                                                              "ok", NoPVC))],
                      err |-> ""]

\* [s, err]
tryToRecreateSTS(s, in, ctx) ==
    LET isSynced == isStatefulSetSynced(s, ctx)
    IN  CASE isSynced = "notfound" -> [s |-> s, err |-> "statefulset not found"]
          [] isSynced = "synced" -> [s |-> s, err |-> ""]
          [] isSynced = "panic" ->
                [s |-> [s EXCEPT !.dead = TRUE,
                                 !.events = Append(@, Ev("panic", "", "", "", "", ctx.mt,
                                                         NoPVC))],
                 err |-> "aborted"]
          [] OTHER ->
                IF Fails(s, in)
                THEN [s |-> [s EXCEPT !.n = @ + 1,
                                      !.events = Append(@, Ev("deleteSts", "", "", "", "",
                                                              "err", NoPVC))],
                      err |-> "delete sts failed"]
                ELSE [s |-> [s EXCEPT !.n = @ + 1,
                                      !.sts[ctx.mt].present = FALSE,
                                      !.dead = Crashes(s, in),
                                      !.events = Append(@, Ev("deleteSts", "", "", "", "",
                                                              "ok", NoPVC))],
                      err |-> ""]

\* [s, err]
modifyVolumes(s, in, ctx) ==
    LET r == tryToRecreateSTS(s, in, ctx)
    IN  IF r.err # "" THEN r ELSE tryToModifyPVC(r.s, in, ctx)

----------------------------------------------------------------------------
(* The pods of a component, in the order tryToModifyPVC visits them. *)

RECURSIVE StrLess(_, _)
\* a < b of two Go strings, given as sequences of digits
StrLess(a, b) ==
    IF Len(b) = 0 THEN FALSE
    ELSE IF Len(a) = 0 THEN TRUE
    ELSE IF Head(a) # Head(b) THEN Head(a) < Head(b)
    ELSE StrLess(Tail(a), Tail(b))

\* a less function that compares the names as strings only
PodLessByName(p, q) == StrLess(p.name, q.name)

\* the less function handed to sort.Slice
PodLess(p, q) ==
    IF Len(p.name) # Len(q.name) THEN Len(p.name) < Len(q.name)
    ELSE StrLess(p.name, q.name)

RECURSIVE SortPods(_)
SortPods(ps) ==
    IF Len(ps) = 0 THEN <<>>
    ELSE LET i == CHOOSE k \in 1..Len(ps) :
                      \A j \in 1..Len(ps) : j # k => ~PodLess(ps[j], ps[k])
             rest == [j \in 1..(Len(ps) - 1) |-> IF j < i THEN ps[j] ELSE ps[j + 1]]
         IN  <<ps[i]>> \o SortPods(rest)

getPodsOfComponent(mt) == SortPods(SelectSeq(pods, LAMBDA p : p.mt = mt))

buildContextForTC(mt) ==
    [mt |-> mt,
     desiredVolumes |-> desired[mt],
     pods |-> getPodsOfComponent(mt),
     shouldEvict |-> mt = "tikv"]

\* the components for which GetDesiredVolumes or the pod lister returns an error
BuildFails(in) == IF "nobuild" \in DOMAIN in THEN in.nobuild ELSE {}

\* a plausible slip: the upgrade of TiKV is not looked at
skipComponentNever(mt) == FALSE

\* the component is passed over: TiKV while it is upgrading
skipComponent(mt) == mt = "tikv" /\ tc.phase = "Upgrade"

RECURSIVE SyncFrom(_, _, _, _)
\* the loop of Sync over the components: [s, errs].  When buildContextForTC
\* fails it returns a nil context, and the error message is built with
\* ctx.ComponentID(), which reads c.tc through the nil pointer
SyncFrom(s, in, i, errs) ==
    IF i > Len(tc.components) \/ s.dead THEN [s |-> s, errs |-> errs]
    ELSE LET mt == tc.components[i]
         IN  IF skipComponent(mt)
             THEN SyncFrom(s, in, i + 1, errs)
             ELSE IF mt \in BuildFails(in)
             THEN [s |-> [s EXCEPT !.dead = TRUE,
                                   !.events = Append(Append(@, Ev("build", "", "", "", "", mt,
                                                                  NoPVC)),
                                                     Ev("panic", "", "", "", "", mt, NoPVC))],
                   errs |-> errs]
             ELSE LET r == modifyVolumes(s, in, buildContextForTC(mt))
                  IN  SyncFrom(r.s, in, i + 1,
                               IF r.err # "" THEN Append(errs, [mt |-> mt, err |-> r.err])
                               ELSE errs)

Sync(s, in) == SyncFrom(s, in, 1, <<>>)

----------------------------------------------------------------------------
(* The cluster the controller runs against. *)

\* a provider nobody has asked anything
NoEC2 == [vs |-> <<>>, state |-> [id \in {} |-> ""]]

IdleLog == [ran |-> FALSE, events |-> <<>>, errs |-> <<>>, dead |-> FALSE]

NoArg == [pvc |-> NoPVC, d |-> NilDesired, t |-> 0, modifiers |-> Modifiers]

NoRet == [done |-> 0, phase |-> "", first |-> NoPVC]

Provisioner == "ebs.csi.aws.com"

Classes == {"gp2", "gp3"}

\* what a user can ask for a volume
Targets == {[size |-> QuantityString(q), sc |-> SC(c, Provisioner)] : q \in Sizes, c \in Classes}

\* a claim as the StatefulSet controller creates it: 10Gi of gp2, no annotations
FreshPVC == [anno |-> NoAnno, req |-> 10, scName |-> "gp2", cap |-> 10]

FreshSTS(names) ==
    [present |-> TRUE,
     templates |-> [i \in 1..Len(names) |-> [name |-> names[i], size |-> 10, scName |-> "gp2"]]]

\* the calls of a pass that can fail or be the last one before a crash
MaxFaultAt == 4

NoFault == [at |-> 0, kind |-> "none"]

Faults == {NoFault} \cup {[at |-> k, kind |-> f] : k \in 1..MaxFaultAt, f \in {"err", "crash"}}

\* a PD member: a config volume and a claim-backed volume
PDPod ==
    [id |-> "pd-0", name |-> <<0>>, mt |-> "pd",
     vols |-> <<[name |-> "config", claim |-> ""],
                [name |-> "pd", claim |-> "pd-pd-0"]>>]

TiKVPod(id, name) ==
    [id |-> id, name |-> name, mt |-> "tikv",
     vols |-> <<[name |-> "tikv", claim |-> "tikv-" \o id]>>]

\* the TiKV pods as the lister returns them
TiKVPods == <<TiKVPod("tikv-2", <<2>>)>>

\* tc.TiKVEvictLeaderTimeout(), in minutes
EvictLeaderTimeout == 1

\* what the cluster status can list for the store of a pod
StoreStatuses ==
    {[leaderCount |-> 0, state |-> "Up"], [leaderCount |-> 10, state |-> "Up"],
     [leaderCount |-> 0, state |-> "Down"]}

InitCommon ==
    /\ evicting = {}
    /\ now = 1
    /\ ticks = 0
    /\ edits = 0
    /\ log = IdleLog
    /\ arg = NoArg
    /\ ret = NoRet
    /\ ec2 = NoEC2

InitPD ==
    /\ InitCommon
    /\ pods = <<PDPod>>
    /\ pvcs = [c \in {"pd-pd-0"} |-> FreshPVC]
    /\ \E a \in Targets : desired = [mt \in {"pd"} |-> <<Desired("pd", a.size, a.sc)>>]
    /\ sts = [mt \in {"pd"} |-> FreshSTS(<<"pd">>)]
    /\ tc = [components |-> <<"pd">>, phase |-> "Normal", cond |-> "",
             stores |-> [p \in {} |-> 0], evictLeader |-> [p \in {} |-> 0],
             evictLeaderTimeout |-> EvictLeaderTimeout]

InitTiKV ==
    /\ InitCommon
    /\ pods = TiKVPods
    /\ pvcs = [c \in {"tikv-tikv-2"} |-> FreshPVC]
    /\ \E a \in Targets : desired = [mt \in {"tikv"} |-> <<Desired("tikv", a.size, a.sc)>>]
    /\ sts = [mt \in {"tikv"} |-> FreshSTS(<<"tikv">>)]
    /\ \E ids \in SUBSET {"tikv-2"} :
         \E st \in [ids -> StoreStatuses] :
           tc = [components |-> <<"tikv">>, phase |-> "Normal", cond |-> "",
                 stores |-> st, evictLeader |-> [p \in {} |-> [beginTime |-> 0]],
                 evictLeaderTimeout |-> EvictLeaderTimeout]

----------------------------------------------------------------------------
(* The steps. *)

\* one reconcile pass of the volume modifier over the cluster, the delegate
\* answering as one of D and the calls failing as one of F
SyncPassWith(D, F) ==
    \E dres \in D, fault \in F :
        LET s0 == [pvcs |-> pvcs, evicting |-> evicting, cond |-> tc.cond, sts |-> sts,
                   n |-> 0, dead |-> FALSE, events |-> <<>>]
        IN  \E r \in {Sync(s0, [dres |-> dres, fault |-> fault])} :
            /\ pvcs' = r.s.pvcs
            /\ evicting' = r.s.evicting
            /\ sts' = r.s.sts
            /\ tc' = [tc EXCEPT !.cond = IF r.s.dead THEN @ ELSE r.s.cond]
            /\ log' = [ran |-> TRUE, events |-> r.s.events, errs |-> r.errs,
                       dead |-> r.s.dead]
            /\ UNCHANGED <<pods, desired, now, ticks, edits, arg, ret, ec2>>

\* a pass in which any call may fail and the controller may die
SyncPass == SyncPassWith([DOMAIN pvcs -> {"wait", "done"}], Faults)

\* a pass that runs to its end without a failing call
SyncPassOK == SyncPassWith([DOMAIN pvcs -> {"wait", "done"}], {NoFault})

\* a pass without a failing call in which the delegate reports every volume done
SyncPassDone == SyncPassWith([DOMAIN pvcs -> {"done"}], {NoFault})

Tick ==
    /\ ticks < MaxTicks
    /\ \E d \in TickSteps : now' = now + d
    /\ ticks' = ticks + 1
    /\ log' = IdleLog
    /\ UNCHANGED <<pods, evicting, pvcs, desired, tc, sts, edits, arg, ret, ec2>>

\* a user asks for another class or a larger size
EditDesired ==
    /\ edits < MaxEdits
    /\ \E mt \in DOMAIN desired : \E i \in 1..Len(desired[mt]) : \E a \in Targets :
        /\ <<a.size, a.sc>> # <<desired[mt][i].size, desired[mt][i].sc>>
        /\ ParseQuantity(a.size).val >= ParseQuantity(desired[mt][i].size).val
        /\ desired' = [desired EXCEPT ![mt][i] = Desired(@.name, a.size, a.sc)]
    /\ edits' = edits + 1
    /\ log' = IdleLog
    /\ UNCHANGED <<pods, evicting, pvcs, tc, sts, now, ticks, arg, ret, ec2>>

\* the component manager creates the missing StatefulSet from the desired volumes
RecreateSTS ==
    \E mt \in DOMAIN sts :
        /\ ~sts[mt].present
        /\ sts' = [sts EXCEPT ![mt] =
                    [present |-> TRUE,
                     templates |-> [i \in 1..Len(desired[mt]) |->
                                      [name |-> desired[mt][i].name,
                                       size |-> ParseQuantity(desired[mt][i].size).val,
                                       scName |-> desiredScName(desired[mt][i])]]]]
        /\ log' = IdleLog
        /\ UNCHANGED <<pods, evicting, pvcs, desired, tc, now, ticks, edits, arg, ret, ec2>>

\* the volume subsystem grows the file system to the requested size
ResizeFS ==
    \E c \in DOMAIN pvcs :
        /\ pvcs[c].cap < pvcs[c].req
        /\ pvcs' = [pvcs EXCEPT ![c].cap = pvcs[c].req]
        /\ log' = IdleLog
        /\ UNCHANGED <<pods, evicting, desired, tc, sts, now, ticks, edits, arg, ret, ec2>>

\* the TiKV member manager refreshes the status of a store
StoreStatus ==
    \E p \in DOMAIN tc.stores : \E st \in StoreStatuses :
        /\ st # tc.stores[p]
        /\ tc' = [tc EXCEPT !.stores[p] = st]
        /\ log' = IdleLog
        /\ UNCHANGED <<pods, evicting, pvcs, desired, sts, now, ticks, edits, arg, ret, ec2>>

\* the TiKV member manager starts evicting the leaders of a marked pod
BeginEvictLeader ==
    \E p \in evicting :
        /\ p \notin DOMAIN tc.evictLeader
        /\ tc' = [tc EXCEPT !.evictLeader =
                    [q \in DOMAIN @ \cup {p} |-> IF q = p THEN [beginTime |-> now] ELSE @[q]]]
        /\ log' = IdleLog
        /\ UNCHANGED <<pods, evicting, pvcs, desired, sts, now, ticks, edits, arg, ret, ec2>>

\* the TiKV member manager ends the eviction of a pod that is no longer marked
EndEvictLeader ==
    \E p \in DOMAIN tc.evictLeader :
        /\ p \notin evicting
        /\ tc' = [tc EXCEPT !.evictLeader = [q \in DOMAIN @ \ {p} |-> @[q]]]
        /\ log' = IdleLog
        /\ UNCHANGED <<pods, evicting, pvcs, desired, sts, now, ticks, edits, arg, ret, ec2>>

NextPD == SyncPass \/ Tick \/ EditDesired \/ RecreateSTS \/ ResizeFS

SpecPD == InitPD /\ [][NextPD]_vars

\* the passes of a PD cluster whose desired volumes stay as they are and whose
\* updates succeed: the driver runs the pass again and again, the delegate
\* finishes, the volume subsystem and the component manager do their part
NextLivePD == SyncPassOK \/ Tick \/ RecreateSTS \/ ResizeFS

\* ENABLED <<SyncPassDone>>_vars, spelled out: such a pass would change something
SyncPassDoneEnabled ==
    \E r \in {Sync([pvcs |-> pvcs, evicting |-> evicting, cond |-> tc.cond, sts |-> sts,
                    n |-> 0, dead |-> FALSE, events |-> <<>>],
                   [dres |-> [c \in DOMAIN pvcs |-> "done"], fault |-> NoFault])} :
        \/ r.s.pvcs # pvcs
        \/ r.s.evicting # evicting
        \/ r.s.sts # sts
        \/ r.s.cond # tc.cond
        \/ log # [ran |-> TRUE, events |-> r.s.events, errs |-> r.errs, dead |-> r.s.dead]

\* WF_vars(SyncPassDone), with its ENABLED spelled out
FairSyncPassDone == []<>(~SyncPassDoneEnabled) \/ []<><<SyncPassDone>>_vars

LivePD ==
    /\ InitPD
    /\ [][NextLivePD]_vars
    /\ FairSyncPassDone
    /\ WF_vars(ResizeFS)
    /\ WF_vars(RecreateSTS)

NextTiKV ==
    \/ SyncPass \/ Tick \/ RecreateSTS \/ ResizeFS
    \/ StoreStatus \/ BeginEvictLeader \/ EndEvictLeader

SpecTiKV == InitTiKV /\ [][NextTiKV]_vars

\* the passes over a TiKV pod with the desired volume fixed and no failing
\* update: the driver runs the pass again and again, time passes, the component
\* manager recreates the StatefulSet; the leaders may stay where they are
NextLiveTiKV ==
    \/ SyncPassOK \/ Tick \/ RecreateSTS \/ ResizeFS
    \/ StoreStatus \/ BeginEvictLeader \/ EndEvictLeader

LiveTiKV ==
    /\ InitTiKV
    /\ [][NextLiveTiKV]_vars
    /\ FairSyncPassDone
    /\ WF_vars(Tick)
    /\ WF_vars(RecreateSTS)

\* the passes over a TiKV pod run to their end, while the users edit the desired
\* volume, the clock advances and the member manager reports on the store
NextTiKVOK ==
    \/ SyncPassOK \/ Tick \/ EditDesired \/ RecreateSTS \/ ResizeFS
    \/ StoreStatus \/ BeginEvictLeader \/ EndEvictLeader

SpecTiKVOK == InitTiKV /\ [][NextTiKVOK]_vars

\* a TiKV component of two pods, listed in the order the informer happens to
\* return them; the cluster status may not list a store for a pod yet
TwoTiKVPods == <<TiKVPod("tikv-2", <<2>>), TiKVPod("tikv-1", <<1>>)>>

InitTwoTiKV ==
    /\ InitCommon
    /\ pods = TwoTiKVPods
    /\ pvcs = [c \in {"tikv-tikv-1", "tikv-tikv-2"} |-> FreshPVC]
    /\ \E a \in Targets : desired = [mt \in {"tikv"} |-> <<Desired("tikv", a.size, a.sc)>>]
    /\ sts = [mt \in {"tikv"} |-> FreshSTS(<<"tikv">>)]
    /\ \E ids \in SUBSET {"tikv-1", "tikv-2"} :
         \E st \in [ids -> StoreStatuses] :
           tc = [components |-> <<"tikv">>, phase |-> "Normal", cond |-> "",
                 stores |-> st, evictLeader |-> [p \in {} |-> [beginTime |-> 0]],
                 evictLeaderTimeout |-> EvictLeaderTimeout]

\* the passes over the two pods run to their end; the member manager, the volume
\* subsystem and the component manager act in between
NextTwoTiKV ==
    \/ SyncPassOK \/ RecreateSTS \/ ResizeFS
    \/ StoreStatus \/ BeginEvictLeader \/ EndEvictLeader

SpecTwoTiKV == InitTwoTiKV /\ [][NextTwoTiKV]_vars

----------------------------------------------------------------------------
(* podVolModifier.Modify called for one pod, as TestModify calls it: a pod    *)
(* "test" with one claim "test-pvc", a cluster status with one store for it.  *)

\* newTestPodForModify; the member type decides shouldEvictLeader
TestPod(mt) ==
    [id |-> "test", name |-> <<0>>, mt |-> mt,
     vols |-> <<[name |-> "test", claim |-> "test-pvc"]>>]

\* the annotations of a claim whose spec snapshot asks for 20Gi of gp2
TestSpecAnno ==
    Put(Put(Put(NoAnno, annoKeyPVCSpecRevision, "1"), annoKeyPVCSpecStorageClass, "gp2"),
        annoKeyPVCSpecStorageSize, "20Gi")

\* newTestPVCForModify, as the cases of TestModify call it
TestPVCs ==
    {FreshPVC,
     [anno |-> TestSpecAnno, req |-> 10, scName |-> "gp2", cap |-> 10],
     [anno |-> TestSpecAnno, req |-> 20, scName |-> "gp2", cap |-> 20]}

InitModify ==
    /\ InitCommon
    /\ \E mt \in {"pd", "tikv"} : pods = <<TestPod(mt)>>
    /\ \E pvc \in TestPVCs : pvcs = [c \in {"test-pvc"} |-> pvc]
    /\ \E a \in Targets :
         desired = [mt \in {"pd", "tikv"} |-> <<Desired("test", a.size, a.sc)>>]
    /\ sts = [mt \in {"pd", "tikv"} |-> FreshSTS(<<"test">>)]
    /\ \E st \in StoreStatuses :
         tc = [components |-> <<>>, phase |-> "Normal", cond |-> "",
               stores |-> [p \in {"test"} |-> st],
               evictLeader |-> [p \in {} |-> [beginTime |-> 0]],
               evictLeaderTimeout |-> EvictLeaderTimeout]

\* Modify(tc, pod, expected, shouldEvictLeader): the volumes are probed and
\* walked; the log keeps what was called and whether the walk completed
ModifyCall ==
    \E dres \in [DOMAIN pvcs -> {"wait", "done"}] :
        LET s0 == [pvcs |-> pvcs, evicting |-> evicting, cond |-> tc.cond, sts |-> sts,
                   n |-> 0, dead |-> FALSE, events |-> <<>>]
            pod == pods[1]
            av == getActualVolumes(pvcs, pod, desired[pod.mt])
        IN  /\ ~av.panic
            /\ \E r \in {ModifyResult(Modify(s0, [dres |-> dres, fault |-> NoFault], pod,
                                              av.vols, pod.mt = "tikv"), pod)} :
                /\ pvcs' = r.s.pvcs
                /\ log' = [ran |-> TRUE, events |-> r.s.events,
                           errs |-> IF r.errs > 0
                                    THEN <<[mt |-> pod.mt, err |-> "modify failed"]>>
                                    ELSE <<>>,
                           dead |-> r.s.dead]
                /\ UNCHANGED <<pods, evicting, desired, tc, sts, now, ticks, edits, arg, ret, ec2>>

NextModify == ModifyCall \/ Tick \/ ResizeFS \/ StoreStatus

SpecModify == InitModify /\ [][NextModify]_vars

----------------------------------------------------------------------------
(* The functions on their own: getVolumePhase over the claims and desired  *)
(* volumes it can be handed, modifyPVCAnnoSpec applied twice to a claim.   *)

Absent == "<absent>"

\* the annotations of a claim, given the value (or Absent) of each key
AnnoFrom(f) == [k \in {x \in DOMAIN f : f[x] # Absent} |-> f[k]]

NoPods == <<>>

NoStatus ==
    [components |-> <<>>, phase |-> "Normal", cond |-> "",
     stores |-> [p \in {} |-> 0], evictLeader |-> [p \in {} |-> 0],
     evictLeaderTimeout |-> EvictLeaderTimeout]

\* desired volumes: every target, and the sizes without a storage class
DesiredInputs ==
    {Desired("pd", a.size, a.sc) : a \in Targets}
        \cup {Desired("pd", QuantityString(q), NilSC) : q \in Sizes}

PhaseAnnos ==
    {AnnoFrom([k \in {annoKeyPVCSpecRevision, annoKeyPVCStatusRevision,
                      annoKeyPVCStatusStorageClass, annoKeyPVCStatusStorageSize,
                      annoKeyPVCLastTransitionTimestamp} |->
                 CASE k = annoKeyPVCSpecRevision -> sr
                   [] k = annoKeyPVCStatusRevision -> tr
                   [] k = annoKeyPVCStatusStorageClass -> tsc
                   [] k = annoKeyPVCStatusStorageSize -> tsz
                   [] OTHER -> ts]) :
        sr \in {Absent, "1", "2"}, tr \in {Absent, "1"},
        tsc \in {Absent} \cup Classes,
        tsz \in {Absent} \cup {QuantityString(q) : q \in Sizes},
        ts \in {Absent, FormatRFC3339(1), "yesterday"}}

\* the registries getVolumeModifier can look into
Registries == {Modifiers, [x \in {} |-> 0]}

InitPhase ==
    /\ pods = NoPods /\ evicting = {} /\ pvcs = [c \in {} |-> NoPVC]
    /\ desired = [mt \in {} |-> <<>>] /\ sts = [mt \in {} |-> 0] /\ tc = NoStatus
    /\ now = 1 /\ ticks = 0 /\ edits = 0 /\ log = IdleLog /\ ret = NoRet /\ ec2 = NoEC2
    /\ \E a \in PhaseAnnos, q \in Sizes, c \in {"", "gp2"}, d \in DesiredInputs,
          t \in Clocks, m \in Registries :
           arg = [pvc |-> [anno |-> a, req |-> q, scName |-> c, cap |-> q],
                  d |-> d, t |-> t, modifiers |-> m]

Classify ==
    /\ ret.done = 0
    /\ ret' = [ret EXCEPT !.done = 1,
                          !.phase = getVolumePhase(arg.pvc, arg.d, arg.modifiers, arg.t)]
    /\ UNCHANGED <<pods, evicting, pvcs, desired, tc, sts, now, ticks, edits, log, arg, ec2>>

NextPhase == Classify

SpecPhase == InitPhase /\ [][NextPhase]_vars

AnnoAnnos ==
    {AnnoFrom([k \in {annoKeyPVCSpecRevision, annoKeyPVCSpecStorageClass,
                      annoKeyPVCSpecStorageSize, annoKeyPVCStatusRevision,
                      annoKeyPVCLastTransitionTimestamp} |->
                 CASE k = annoKeyPVCSpecRevision -> sr
                   [] k = annoKeyPVCSpecStorageClass -> ssc
                   [] k = annoKeyPVCSpecStorageSize -> ssz
                   [] k = annoKeyPVCStatusRevision -> tr
                   [] OTHER -> ts]) :
        sr \in {Absent, "1", "one"}, tr \in {Absent, "1"},
        ssc \in {Absent} \cup Classes,
        ssz \in {Absent} \cup {QuantityString(q) : q \in Sizes},
        ts \in {Absent, FormatRFC3339(1)}}

InitAnno ==
    /\ pods = <<PDPod>> /\ evicting = {}
    /\ sts = [mt \in {"pd"} |-> FreshSTS(<<"pd">>)] /\ tc = NoStatus
    /\ now = 1 /\ ticks = 0 /\ edits = 0 /\ log = IdleLog /\ ret = NoRet /\ arg = NoArg
    /\ ec2 = NoEC2
    /\ \E a \in AnnoAnnos, q \in Sizes :
           pvcs = [c \in {"pd-pd-0"} |-> [anno |-> a, req |-> q, scName |-> "gp2", cap |-> q]]
    /\ \E d \in DesiredInputs : desired = [mt \in {"pd"} |-> <<d>>]

\* one invocation of modifyPVCAnnoSpec on the claim of the pod
Snapshot ==
    /\ ret.done < 2
    /\ \E shouldEvict \in BOOLEAN :
        LET s0 == [pvcs |-> pvcs, evicting |-> evicting, cond |-> tc.cond, sts |-> sts,
                   n |-> 0, dead |-> FALSE, events |-> <<>>]
            vol == [name |-> "pd", claim |-> "pd-pd-0", desired |-> desired["pd"][1],
                    phase |-> VolumePhasePreparing]
        IN  \E r \in {modifyPVCAnnoSpec(s0, [dres |-> [c \in DOMAIN pvcs |-> "done"],
                                             fault |-> NoFault],
                                        PDPod, vol, shouldEvict)} :
            /\ pvcs' = r.s.pvcs
            /\ ret' = [ret EXCEPT !.done = @ + 1,
                                  !.first = IF ret.done = 0 THEN r.s.pvcs["pd-pd-0"] ELSE @]
    /\ UNCHANGED <<pods, evicting, desired, tc, sts, now, ticks, edits, log, arg, ec2>>

NextAnno == Snapshot

SpecAnno == InitAnno /\ [][NextAnno]_vars

----------------------------------------------------------------------------
(* Phase classification. *)

\* the size and class isPVCStatusMatched takes as current: the status snapshot
\* when present, otherwise the live claim
CurrentSize(pvc) ==
    IF Has(pvc.anno, annoKeyPVCStatusStorageSize)
    THEN pvc.anno[annoKeyPVCStatusStorageSize] ELSE QuantityString(pvc.req)

CurrentClass(pvc) ==
    IF Has(pvc.anno, annoKeyPVCStatusStorageClass)
    THEN pvc.anno[annoKeyPVCStatusStorageClass] ELSE pvc.scName

RevisionsDiffer(pvc) ==
    Get(pvc.anno, annoKeyPVCSpecRevision) # Get(pvc.anno, annoKeyPVCStatusRevision)

\* C3: a claim whose spec revision differs from its status revision (the status
\* revision may be absent) is classified Modifying, whatever the desired volume,
\* the live claim and the last-transition timestamp are.
C3_RevisionMismatchIsModifying ==
    (ret.done = 1 /\ RevisionsDiffer(arg.pvc)) => ret.phase = VolumePhaseModifying

\* a claim with differing revisions that already has the desired size and class
\* was classified
C3_Witness ==
    /\ ret.done = 1
    /\ RevisionsDiffer(arg.pvc)
    /\ Get(arg.pvc.anno, annoKeyPVCStatusRevision) = "1"
    /\ CurrentSize(arg.pvc) = arg.d.size
    /\ CurrentClass(arg.pvc) = desiredScName(arg.d)
    /\ ret.phase = VolumePhaseModifying

\* C4: a claim with equal spec and status revisions whose current size and class
\* (the status snapshot when present, otherwise the live claim) equal the desired
\* ones is classified Modified.
C4_MatchedIsModified ==
    (/\ ret.done = 1
     /\ ~RevisionsDiffer(arg.pvc)
     /\ CurrentSize(arg.pvc) = arg.d.size
     /\ CurrentClass(arg.pvc) = desiredScName(arg.d)) => ret.phase = VolumePhaseModified

\* a claim whose status snapshot equals the desired volume while the live claim
\* still shows the old size was classified Modified
C4_Witness ==
    /\ ret.done = 1
    /\ Get(arg.pvc.anno, annoKeyPVCSpecRevision) = "1"
    /\ Get(arg.pvc.anno, annoKeyPVCStatusRevision) = "1"
    /\ Has(arg.pvc.anno, annoKeyPVCStatusStorageSize)
    /\ CurrentSize(arg.pvc) = arg.d.size
    /\ CurrentClass(arg.pvc) = desiredScName(arg.d)
    /\ QuantityString(arg.pvc.req) # arg.d.size
    /\ ret.phase = VolumePhaseModified

----------------------------------------------------------------------------
(* The spec snapshot. *)

\* C8: modifyPVCAnnoSpec invoked twice in a row with the same desired size and
\* class leaves the spec revision at the value it had after the first invocation.
C8_SnapshotIdempotent ==
    ret.done = 2 =>
        /\ Has(pvcs["pd-pd-0"].anno, annoKeyPVCSpecRevision)
                = Has(ret.first.anno, annoKeyPVCSpecRevision)
        /\ Get(pvcs["pd-pd-0"].anno, annoKeyPVCSpecRevision)
                = Get(ret.first.anno, annoKeyPVCSpecRevision)

\* the first invocation upgraded the revision to "2", the second one left it there
C8_Witness ==
    /\ ret.done = 2
    /\ Get(ret.first.anno, annoKeyPVCSpecRevision) = "2"
    /\ Get(pvcs["pd-pd-0"].anno, annoKeyPVCSpecRevision) = "2"
    /\ QuantityString(pvcs["pd-pd-0"].req) # desired["pd"][1].size

----------------------------------------------------------------------------
(* The passes. *)

\* the pod volume a claim backs, as <<index of the pod, index of the volume>>
VolumeOf(c) ==
    CHOOSE pv \in UNION {{<<p, i>> : i \in 1..Len(pods[p].vols)} : p \in 1..Len(pods)} :
        pods[pv[1]].vols[pv[2]].claim = c

\* the desired volume of the pod volume a claim backs
DesiredFor(c) ==
    getDesiredVolumeByName(desired[pods[VolumeOf(c)[1]].mt],
                           pods[VolumeOf(c)[1]].vols[VolumeOf(c)[2]].name)

\* the spec revision as a number, 0 when absent
Rev(pvc) == Atoi(Get(pvc.anno, annoKeyPVCSpecRevision)).val

\* the three status annotations of a claim
StatusSnapshot(pvc) ==
    [k \in {annoKeyPVCStatusRevision, annoKeyPVCStatusStorageClass,
            annoKeyPVCStatusStorageSize} |->
        IF Has(pvc.anno, k) THEN pvc.anno[k] ELSE Absent]

\* the two spec annotations that hold the snapshot of the target
SpecSnapshot(pvc) ==
    [k \in {annoKeyPVCSpecStorageClass, annoKeyPVCSpecStorageSize} |->
        IF Has(pvc.anno, k) THEN pvc.anno[k] ELSE Absent]

\* the pass just run called the delegate for the claim and it answered res
Delegated(l, c, res) ==
    \E j \in 1..Len(l.events) :
        /\ l.events[j].op = "delegate"
        /\ l.events[j].claim = c
        /\ l.events[j].res = res

\* the claim needs a change, no cycle is open and the last transition is less than
\* the MinWaitDuration of the delegate in the past
InCooldown(c) ==
    /\ ~RevisionsDiffer(pvcs[c])
    /\ \/ CurrentSize(pvcs[c]) # DesiredFor(c).size
       \/ CurrentClass(pvcs[c]) # desiredScName(DesiredFor(c))
    /\ Has(pvcs[c].anno, annoKeyPVCLastTransitionTimestamp)
    /\ ParseRFC3339(pvcs[c].anno[annoKeyPVCLastTransitionTimestamp]).ok
    /\ now - ParseRFC3339(pvcs[c].anno[annoKeyPVCLastTransitionTimestamp]).val
            < Modifiers["aws"]

\* C5: a claim that needs a change, has equal revisions and a last transition
\* within the delegate's MinWaitDuration is classified Pending, not Preparing,
\* and a pass leaves its spec revision as it is.
C5_CooldownIsPending ==
    [][\A c \in DOMAIN pvcs :
          InCooldown(c) =>
            /\ getVolumePhase(pvcs[c], DesiredFor(c), Modifiers, now) = VolumePhasePending
            /\ log'.ran => /\ Has(pvcs'[c].anno, annoKeyPVCSpecRevision)
                                = Has(pvcs[c].anno, annoKeyPVCSpecRevision)
                           /\ Get(pvcs'[c].anno, annoKeyPVCSpecRevision)
                                = Get(pvcs[c].anno, annoKeyPVCSpecRevision)]_vars

\* a pass has run over a claim in its cooldown and has called nothing for it
C5_Witness ==
    /\ log.ran
    /\ \E c \in DOMAIN pvcs :
        /\ InCooldown(c)
        /\ \A j \in 1..Len(log.events) : log.events[j].claim # c

\* C6: a pass changes the status annotations of a claim only if the delegate has
\* answered wait=false for it in that pass and the claim's requested size and
\* capacity both equal the desired size; the revisions become equal in no other way.
C6_StatusCopiedOnlyWhenComplete ==
    [][\A c \in DOMAIN pvcs :
          (\/ StatusSnapshot(pvcs'[c]) # StatusSnapshot(pvcs[c])
           \/ RevisionsDiffer(pvcs[c]) /\ ~RevisionsDiffer(pvcs'[c])) =>
            /\ log'.ran
            /\ Delegated(log', c, "done")
            /\ QuantityString(pvcs'[c].req) = DesiredFor(c).size
            /\ QuantityString(pvcs'[c].cap) = DesiredFor(c).size]_vars

\* a pass has copied the status annotations of a claim
C6_Witness ==
    /\ log.ran
    /\ \E j \in 1..Len(log.events) :
        /\ log.events[j].op = "status"
        /\ log.events[j].res = "ok"
        /\ Get(pvcs[log.events[j].claim].anno, annoKeyPVCStatusRevision) = "1"
        /\ pvcs[log.events[j].claim].cap = 20

\* C7: when the delegate answers wait=true for a volume, Modify returns
\* completed=false for the pod and the claim stays as it was when the delegate
\* was called: the pass makes no further change to it.
C7_WaitFreezesClaim ==
    \A j \in 1..Len(log.events) :
        (log.events[j].op = "delegate" /\ log.events[j].res = "wait") =>
            /\ pvcs[log.events[j].claim] = log.events[j].pvc
            /\ ~log.dead =>
                \E k \in (j + 1)..Len(log.events) :
                    /\ log.events[k].op = "modify"
                    /\ log.events[k].pod = log.events[j].pod
                    /\ log.events[k].res = "incomplete"

\* the delegate has answered wait=true for a claim whose requested size is not
\* yet the desired one
C7_Witness ==
    \E j \in 1..Len(log.events) :
        /\ log.events[j].op = "delegate"
        /\ log.events[j].res = "wait"
        /\ ~log.dead
        /\ QuantityString(pvcs[log.events[j].claim].req) # log.events[j].size

\* C9: in every step the spec revision of a claim does not decrease, and when it
\* changes it grows by exactly one and the spec snapshot of size and class changes.
C9_RevisionMonotonic ==
    [][\A c \in DOMAIN pvcs :
          /\ Rev(pvcs'[c]) >= Rev(pvcs[c])
          /\ Rev(pvcs'[c]) # Rev(pvcs[c]) =>
                /\ Rev(pvcs'[c]) = Rev(pvcs[c]) + 1
                /\ SpecSnapshot(pvcs'[c]) # SpecSnapshot(pvcs[c])]_vars

\* a pass has upgraded the spec revision of a claim from 1 to 2
C9_Witness ==
    /\ log.ran
    /\ \E j \in 1..Len(log.events) :
        /\ log.events[j].op = "spec"
        /\ log.events[j].res = "ok"
        /\ Rev(log.events[j].pvc) = 2

\* C2: the status annotations of a claim describe a size and class the volume has
\* reached: whenever a pass copies them, the delegate has reported done in that
\* pass for exactly that size and class, and the capacity equals that size.
C2_StatusDescribesReached ==
    \A i \in 1..Len(log.events) :
        (log.events[i].op = "status" /\ log.events[i].res = "ok") =>
            /\ Get(log.events[i].pvc.anno, annoKeyPVCStatusStorageSize)
                    = QuantityString(log.events[i].pvc.cap)
            /\ \E j \in 1..(i - 1) :
                /\ log.events[j].op = "delegate"
                /\ log.events[j].res = "done"
                /\ log.events[j].claim = log.events[i].claim
                /\ log.events[j].size
                        = Get(log.events[i].pvc.anno, annoKeyPVCStatusStorageSize)
                /\ log.events[j].sc
                        = Get(log.events[i].pvc.anno, annoKeyPVCStatusStorageClass)

----------------------------------------------------------------------------
(* The leader-eviction gate. *)

\* C1: the delegate is called for a volume of a TiKV pod only while the store of
\* the pod reports no leader, or the eviction of the pod has been outstanding for
\* longer than the eviction timeout.
C1_DelegateOnlyWhenEvicted ==
    \A j \in 1..Len(log.events) :
        log.events[j].op = "delegate" =>
            \/ /\ log.events[j].pod \in DOMAIN tc.stores
               /\ tc.stores[log.events[j].pod].leaderCount = 0
            \/ /\ log.events[j].pod \in DOMAIN tc.evictLeader
               /\ now - tc.evictLeader[log.events[j].pod].beginTime > tc.evictLeaderTimeout

----------------------------------------------------------------------------
(* Resumption. *)

----------------------------------------------------------------------------
(* One pod at a time. *)

\* C12: starting with no pod marked, at most one pod of the TiKV component
\* carries the evicting marker at any time: a later pod is marked only after the
\* marker of the earlier pod has been cleared.
C12_OnePodEvicting == Cardinality(evicting) <= 1

----------------------------------------------------------------------------
(* The cluster-wide LeaderEvicting condition. *)

\* the phase of a claim as a pass starting now would classify it
PhaseOf(c) == getVolumePhase(pvcs[c], DesiredFor(c), Modifiers, now)

\* the pod has a volume to modify and its leaders are neither gone nor timed out
NeedsEviction(pod) ==
    /\ ShouldModify(getActualVolumes(pvcs, pod, desired[pod.mt]).vols)
    /\ ~isLeaderEvictedOrTimeout(tc, pod, now)

\* the claim ps[c] has reached the desired volume: no cycle open, nothing to change
SyncedIn(ps, c) == ~RevisionsDiffer(ps[c]) /\ ~needModify(ps[c], DesiredFor(c))

\* the pass l has copied the status annotations of the claim
StatusCopied(l, c) ==
    \E j \in 1..Len(l.events) :
        l.events[j].op = "status" /\ l.events[j].claim = c /\ l.events[j].res = "ok"

----------------------------------------------------------------------------
(* A pod whose leaders are not evicted. *)

\* the pass l has called the delegate
DelegateCalled(l) == \E j \in 1..Len(l.events) : l.events[j].op = "delegate"

C15_BlockedPodClaimsUnchanged ==
    [][(log'.ran /\ pods[1].mt = "tikv" /\ NeedsEviction(pods[1])) =>
            /\ pvcs' = pvcs
            /\ \E j \in 1..Len(log'.events) :
                log'.events[j].op = "modify" /\ log'.events[j].res = "incomplete"]_vars

----------------------------------------------------------------------------
(* The bounded wait. *)

\* the eviction of the pod has been outstanding for longer than the timeout
EvictionTimedOut(p) ==
    /\ p \in DOMAIN tc.evictLeader
    /\ tc.evictLeader[p].beginTime # 0
    /\ now - tc.evictLeader[p].beginTime > tc.evictLeaderTimeout

\* C16: once the eviction of a pod has been outstanding for longer than the
\* timeout, isLeaderEvictedOrTimeout is true although the store still has
\* leaders; and with passes run again and again and time passing, a pod that
\* needs modification and whose eviction has begun (the whole timeout still
\* ahead on the clock) has the delegate called for it, leaders or not.
C16_EvictionWaitBounded ==
    /\ [](("tikv-2" \in DOMAIN tc.stores /\ EvictionTimedOut("tikv-2"))
            => isLeaderEvictedOrTimeout(tc, pods[1], now))
    /\ (NeedsEviction(pods[1]) /\ "tikv-2" \in DOMAIN tc.evictLeader /\ ticks = 0)
            ~> (log.ran /\ DelegateCalled(log))

\* a pass has called the delegate for the pod after the timeout, the store of the
\* pod still reporting ten leaders
C16_Witness ==
    /\ log.ran
    /\ DelegateCalled(log)
    /\ "tikv-2" \in DOMAIN tc.stores
    /\ tc.stores["tikv-2"].leaderCount = 10
    /\ EvictionTimedOut("tikv-2")

----------------------------------------------------------------------------
(* The end of an eviction. *)

\* the pods of the TiKV component in the order a pass visits them
Visited == getPodsOfComponent("tikv")

\* the eviction bookkeeping has no entry for the pod and the store of the pod is Up
EvictionDrained(p) ==
    /\ p \notin DOMAIN tc.evictLeader
    /\ p \in DOMAIN tc.stores
    /\ tc.stores[p].state = "Up"

\* C17: a pass that finds the first pod it visits without a volume to modify
\* clears the evicting marker of the pod; unless the eviction bookkeeping has
\* no entry for the pod and its store is Up, the pass returns an error, does
\* not declare the component complete and touches neither the marker nor the
\* claim of the later pod.
C17_EndOfEvictionGated ==
    [][(/\ log'.ran
        /\ sts["tikv"].present
        /\ ~ShouldModify(getActualVolumes(pvcs, Visited[1], desired["tikv"]).vols)) =>
            /\ Visited[1].id \notin evicting'
            /\ ~EvictionDrained(Visited[1].id) =>
                /\ log'.errs # <<>>
                /\ tc'.cond = tc.cond
                /\ (Visited[2].id \in evicting') = (Visited[2].id \in evicting)
                /\ pvcs'[Visited[2].vols[1].claim] = pvcs[Visited[2].vols[1].claim]]_vars

----------------------------------------------------------------------------
(* Asking for an eviction again. *)

\* the events of the pass l that write the leader-eviction condition
CondEvents(l) == {j \in 1..Len(l.events) : l.events[j].op = "cond"}

\* C18: a pass that asks again for the eviction of a pod that already carries
\* the evicting marker, while the condition is already True, updates no pod
\* and leaves the condition alone; and every pass writes the condition at
\* most once, and only to a value it did not have.
C18_EvictionRequestIdempotent ==
    [][log'.ran =>
        /\ (/\ sts["tikv"].present
            /\ NeedsEviction(pods[1])
            /\ pods[1].id \in evicting
            /\ tc.cond = "True") =>
                /\ \A j \in 1..Len(log'.events) :
                      log'.events[j].op \notin {"evict", "endEvict", "cond"}
                /\ evicting' = evicting
                /\ tc'.cond = tc.cond
        /\ Cardinality(CondEvents(log')) <= 1
        /\ \A j \in CondEvents(log') : log'.events[j].res # tc.cond]_vars

\* a pass has asked again for the eviction of the marked pod and changed nothing
C18_Witness ==
    /\ log.ran
    /\ log.events = <<>>
    /\ log.errs # <<>>
    /\ sts["tikv"].present
    /\ NeedsEviction(pods[1])
    /\ pods[1].id \in evicting
    /\ tc.cond = "True"

----------------------------------------------------------------------------
(* The StatefulSet against the desired volumes. *)

\* a PD cluster whose spec may leave the storage class of the volume out
InitSTS ==
    /\ InitCommon
    /\ pods = <<PDPod>>
    /\ pvcs = [c \in {"pd-pd-0"} |-> FreshPVC]
    /\ \E d \in DesiredInputs : desired = [mt \in {"pd"} |-> <<d>>]
    /\ sts = [mt \in {"pd"} |-> FreshSTS(<<"pd">>)]
    /\ tc = [components |-> <<"pd">>, phase |-> "Normal", cond |-> "",
             stores |-> [p \in {} |-> 0], evictLeader |-> [p \in {} |-> 0],
             evictLeaderTimeout |-> EvictLeaderTimeout]

NextSTS == SyncPassOK \/ Tick \/ EditDesired \/ RecreateSTS \/ ResizeFS

SpecSTS == InitSTS /\ [][NextSTS]_vars

\* some volume claim template of the StatefulSet differs from the desired
\* volume of its name in requested size or in storage-class name
TemplateDiffers(mt) ==
    \E i \in 1..Len(sts[mt].templates) :
        LET d == getDesiredVolumeByName(desired[mt], sts[mt].templates[i].name)
        IN  /\ ~d.nil
            /\ \/ d.size # QuantityString(sts[mt].templates[i].size)
               \/ desiredScName(d) # sts[mt].templates[i].scName

\* the pass l has deleted the StatefulSet
StsDeleted(l) ==
    \E j \in 1..Len(l.events) : l.events[j].op = "deleteSts" /\ l.events[j].res = "ok"

\* C19: a pass over a present StatefulSet with a template that differs from
\* the desired volume of its name (in size or in storage-class name, a desired
\* volume without a storage class against a template that names one included)
\* deletes the StatefulSet and deletes no pod and no claim; a pass over a
\* StatefulSet whose templates all agree does not delete it.
C19_UnsyncedTemplateDeleted ==
    [][(log'.ran /\ sts["pd"].present) =>
        /\ TemplateDiffers("pd") =>
            /\ StsDeleted(log')
            /\ ~sts'["pd"].present
            /\ pods' = pods
            /\ DOMAIN pvcs' = DOMAIN pvcs
        /\ ~TemplateDiffers("pd") => (~StsDeleted(log') /\ sts' = sts)]_vars

----------------------------------------------------------------------------
(* The per-pod step and the StatefulSet. *)

\* the pass l has left the claims, the markers and the delegate alone
PerPodStepSkipped(l) ==
    /\ pvcs' = pvcs
    /\ evicting' = evicting
    /\ ~DelegateCalled(l)

\* the pass l has called Modify for a pod
ModifyCalled(l) == \E j \in 1..Len(l.events) : l.events[j].op = "modify"

\* the pass l has failed to delete the StatefulSet
StsDeleteFailed(l) ==
    \E j \in 1..Len(l.events) : l.events[j].op = "deleteSts" /\ l.events[j].res = "err"

\* C20 as stated: a pass that finds the StatefulSet of the component with a
\* template that differs from the desired volumes, or does not find it at
\* all, changes no claim, marks no pod and calls no delegate.
C20_UnsyncedSkipsPerPodStep ==
    [][(log'.ran /\ (~sts["tikv"].present \/ TemplateDiffers("tikv"))) =>
            PerPodStepSkipped(log')]_vars

\* C20 amended: a pass that does not find the StatefulSet, or fails to delete
\* it, changes no claim, marks no pod, calls no delegate and leaves the
\* condition alone; a pass that deletes the StatefulSet and survives the call
\* goes on to the pods in the same call, and calls Modify for a pod that
\* needs it and is not held back by its leaders.
C20_AbsentSkipsPerPodStep ==
    [][log'.ran =>
        /\ (~sts["tikv"].present \/ StsDeleteFailed(log')) =>
                (PerPodStepSkipped(log') /\ tc'.cond = tc.cond)
        /\ (/\ StsDeleted(log')
            /\ ~(Len(log'.events) = 1 /\ log'.dead)
            /\ ShouldModify(getActualVolumes(pvcs, pods[1], desired["tikv"]).vols)
            /\ isLeaderEvictedOrTimeout(tc, pods[1], now)) => ModifyCalled(log')]_vars

\* a pass has deleted the StatefulSet and modified the claim in the same call
C20_Witness ==
    /\ log.ran
    /\ StsDeleted(log)
    /\ ~sts["tikv"].present
    /\ DelegateCalled(log)
    /\ pvcs["tikv-tikv-2"].anno # NoAnno

----------------------------------------------------------------------------
(* A failing call in the middle of a pass. *)

\* a PD member with two claim-backed volumes
PDPodWithLog(id, name) ==
    [id |-> id, name |-> name, mt |-> "pd",
     vols |-> <<[name |-> "pd", claim |-> "pd-" \o id],
                [name |-> "log", claim |-> "log-" \o id]>>]

\* two PD members, as the lister returns them
TwoPDPods == <<PDPodWithLog("pd-1", <<1>>), PDPodWithLog("pd-0", <<0>>)>>

\* the StatefulSet of PD already has the templates of the desired volumes
InitErr ==
    /\ InitCommon
    /\ pods = TwoPDPods
    /\ pvcs = [c \in {"pd-pd-0", "log-pd-0", "pd-pd-1", "log-pd-1"} |-> FreshPVC]
    /\ \E a \in Targets :
         /\ desired = [mt \in {"pd"} |-> <<Desired("pd", a.size, a.sc),
                                            Desired("log", a.size, a.sc)>>]
         /\ sts = [mt \in {"pd"} |->
                    [present |-> TRUE,
                     templates |-> <<[name |-> "pd", size |-> ParseQuantity(a.size).val,
                                      scName |-> a.sc.name],
                                     [name |-> "log", size |-> ParseQuantity(a.size).val,
                                      scName |-> a.sc.name]>>]]
    /\ tc = [components |-> <<"pd">>, phase |-> "Normal", cond |-> "",
             stores |-> [p \in {} |-> 0], evictLeader |-> [p \in {} |-> 0],
             evictLeaderTimeout |-> EvictLeaderTimeout]

\* the calls of a pass that can return an error
ErrFaults == {NoFault} \cup {[at |-> k, kind |-> "err"] : k \in 1..MaxFaultAt}

\* a pass in which one call may fail; the delegate gives every volume the same answer
SyncPassErr ==
    SyncPassWith({[c \in DOMAIN pvcs |-> r] : r \in {"wait", "done"}}, ErrFaults)

NextErr == SyncPassErr \/ ResizeFS

SpecErr == InitErr /\ [][NextErr]_vars

\* the pass l has had a failing call for the claim c
FailedOn(l, c) ==
    \E j \in 1..Len(l.events) : l.events[j].claim = c /\ l.events[j].res = "err"

\* the pass l has made a call for the claim c
AttemptedClaim(l, c) == \E j \in 1..Len(l.events) : l.events[j].claim = c

\* the pass l has called Modify for the pod p
AttemptedPod(l, p) ==
    \E j \in 1..Len(l.events) : l.events[j].op = "modify" /\ l.events[j].pod = p

\* the volume v of a pod has something to do in a pass starting now
HasWork(v) == PhaseOf(v.claim) \in {VolumePhasePreparing, VolumePhaseModifying}

\* C21: in a pass in which a call fails for a volume of a pod, every other
\* volume of that pod that has something to do is attempted, every later pod
\* with a volume that has something to do is attempted, and the pass returns
\* an error.
C21_ErrorDoesNotStopPass ==
    [][log'.ran =>
        \A i \in 1..Len(getPodsOfComponent("pd")) :
            LET pod == getPodsOfComponent("pd")[i]
            IN  (\E k \in 1..Len(pod.vols) : FailedOn(log', pod.vols[k].claim)) =>
                    /\ log'.errs # <<>>
                    /\ \A k \in 1..Len(pod.vols) :
                          HasWork(pod.vols[k]) => AttemptedClaim(log', pod.vols[k].claim)
                    /\ \A j \in (i + 1)..Len(getPodsOfComponent("pd")) :
                          LET q == getPodsOfComponent("pd")[j]
                          IN  (\E k \in 1..Len(q.vols) : HasWork(q.vols[k])) =>
                                  AttemptedPod(log', q.id)]_vars

----------------------------------------------------------------------------
(* The delegate for EBS volumes. *)

\* See the API reference of ModifyVolume
maxSize == 16384

minSize == 1

\* a nil *int32
NilInt32 == [nil |-> TRUE, val |-> 0]

Int32Ptr(v) == [nil |-> FALSE, val |-> v]

\* how often the delegate is called on its own
MaxPolls == 3

\* quantity.ScaledValue(resource.Giga) of a quantity of n Gi: n * 2^30 / 10^9
\* rounded up, that is n + ceil(n * 144027 / 1953125), by long division of
\* the three base-100 digits of n so that no product leaves 32 bits
ScaledValueGiga(n) ==
    LET p == 144027
        q == 1953125
        t2 == (n \div 10000) * p
        q2 == t2 \div q
        r2 == t2 % q
        t1 == 100 * r2 + ((n \div 100) % 100) * p
        q1 == 100 * q2 + t1 \div q
        r1 == t1 % q
        t0 == 100 * r1 + (n % 100) * p
        q0 == 100 * q1 + t0 \div q
        r0 == t0 % q
    IN  n + q0 + (IF r0 > 0 THEN 1 ELSE 0)

\* [err, size]
setArgsFromPVC(pvc) ==
    LET size == ScaledValueGiga(pvc.req)
    IN  IF size < minSize \/ size > maxSize
        THEN [err |-> TRUE, size |-> NilInt32]
        ELSE [err |-> FALSE, size |-> Int32Ptr(size)]

\* the numerals the parameters of a storage class are written with
ParamNumbers == {125, 3000}

\* strconv.ParseInt(str, 10, 32): [ok, val]
ParseInt(str) ==
    IF \E n \in ParamNumbers : Itoa(n) = str
    THEN [ok |-> TRUE, val |-> CHOOSE n \in ParamNumbers : Itoa(n) = str]
    ELSE [ok |-> FALSE, val |-> 0]

\* [err, val]
getParamInt32(params, key) ==
    IF key \notin DOMAIN params THEN [err |-> FALSE, val |-> NilInt32]
    ELSE IF ~ParseInt(params[key]).ok THEN [err |-> TRUE, val |-> NilInt32]
    ELSE [err |-> FALSE, val |-> Int32Ptr(ParseInt(params[key]).val)]

\* [err, throughput, iops, type]
setArgsFromStorageClass(sc) ==
    LET throughput == getParamInt32(sc.params, "throughput")
        iops == getParamInt32(sc.params, "iops")
    IN  IF sc.nil
        THEN [err |-> FALSE, throughput |-> NilInt32, iops |-> NilInt32, type |-> ""]
        ELSE IF throughput.err
        THEN [err |-> TRUE, throughput |-> NilInt32, iops |-> NilInt32, type |-> ""]
        ELSE IF iops.err
        THEN [err |-> TRUE, throughput |-> throughput.val, iops |-> NilInt32, type |-> ""]
        ELSE [err |-> FALSE, throughput |-> throughput.val, iops |-> iops.val,
              type |-> Get(sc.params, "type")]

\* [err, v]: the three setters all run, their errors are aggregated
getExpectedVolume(pvc, pv, sc) ==
    LET a == setArgsFromPVC(pvc)
        c == setArgsFromStorageClass(sc)
    IN  [err |-> a.err \/ c.err,
         v |-> [VolumeId |-> pv.handle, Size |-> a.size, IOPS |-> c.iops,
                Throughput |-> c.throughput, Type |-> c.type,
                IsCompleted |-> FALSE, IsFaild |-> FALSE]]

diffInt32(a, b) ==
    IF a.nil /\ b.nil THEN FALSE
    ELSE IF a.nil \/ b.nil THEN TRUE
    ELSE a.val # b.val

diffVolume(actual, wanted) ==
    \/ diffInt32(actual.IOPS, wanted.IOPS)
    \/ diffInt32(actual.Throughput, wanted.Throughput)
    \/ diffInt32(actual.Size, wanted.Size)
    \/ actual.Type # wanted.Type

\* FakeEC2VolumeAPI.DescribeVolumesModifications for one volume id: [err, mods]
DescribeVolumesModifications(api, id) ==
    LET mods == SelectSeq(api.vs, LAMBDA v : v.VolumeId = id)
    IN  IF Len(mods) = 0 THEN [err |-> TRUE, mods |-> <<>>]
        ELSE [err |-> FALSE,
              mods |-> [i \in 1..Len(mods) |->
                          [VolumeId |-> mods[i].VolumeId, TargetSize |-> mods[i].Size,
                           TargetIops |-> mods[i].IOPS,
                           TargetThroughput |-> mods[i].Throughput,
                           TargetVolumeType |-> mods[i].Type,
                           ModificationState |-> api.state[id]]]]

\* FakeEC2VolumeAPI.ModifyVolume: [err, api]
FakeModifyVolume(api, v) ==
    LET new == [VolumeId |-> v.VolumeId, Size |-> v.Size, IOPS |-> v.IOPS,
                Throughput |-> v.Throughput, Type |-> v.Type]
    IN  IF \E i \in 1..Len(api.vs) : api.vs[i].VolumeId = v.VolumeId
        THEN LET i == CHOOSE k \in 1..Len(api.vs) :
                        /\ api.vs[k].VolumeId = v.VolumeId
                        /\ \A j \in 1..(k - 1) : api.vs[j].VolumeId # v.VolumeId
             IN  IF api.state[v.VolumeId] \in {"completed", "failed"}
                 THEN [err |-> FALSE, api |-> [api EXCEPT !.vs[i] = new]]
                 ELSE [err |-> TRUE, api |-> api]
        ELSE [err |-> FALSE, api |-> [api EXCEPT !.vs = Append(@, new)]]

\* the Volume made of a modification the provider reports
VolumeOfModification(s) ==
    [VolumeId |-> s.VolumeId, Size |-> s.TargetSize, IOPS |-> s.TargetIops,
     Throughput |-> s.TargetThroughput, Type |-> s.TargetVolumeType,
     IsCompleted |-> s.ModificationState \in {"completed", "optimizing"},
     IsFaild |-> s.ModificationState = "failed"]

\* [err, nil, v, queried]: the loop passes over every modification whose
\* volume id is the id asked for, and returns the first of the others
getCurrentVolumeStatus(api, id, fault) ==
    LET res == DescribeVolumesModifications(api, id)
        others == SelectSeq(res.mods, LAMBDA s : ~(s.VolumeId = Absent \/ s.VolumeId = id))
    IN  IF fault = "describe" \/ res.err THEN [err |-> TRUE, nil |-> TRUE, v |-> <<>>]
        ELSE IF Len(others) = 0 THEN [err |-> FALSE, nil |-> TRUE, v |-> <<>>]
        ELSE [err |-> FALSE, nil |-> FALSE, v |-> VolumeOfModification(others[1])]

\* EBSModifier.ModifyVolume: [wait, err, api, queried, modified]
ModifyVolume(api, pvc, pv, sc, fault) ==
    LET wanted == getExpectedVolume(pvc, pv, sc)
        actual == getCurrentVolumeStatus(api, wanted.v.VolumeId, fault)
        call == FakeModifyVolume(api, wanted.v)
    IN  IF wanted.err
        THEN [wait |-> FALSE, err |-> TRUE, api |-> api, queried |-> FALSE,
              modified |-> FALSE]
        ELSE IF actual.err
        THEN [wait |-> FALSE, err |-> TRUE, api |-> api, queried |-> TRUE,
              modified |-> FALSE]
        ELSE IF ~actual.nil /\ ~diffVolume(actual.v, wanted.v) /\ actual.v.IsCompleted
        THEN [wait |-> FALSE, err |-> FALSE, api |-> api, queried |-> TRUE,
              modified |-> FALSE]
        ELSE IF ~actual.nil /\ ~diffVolume(actual.v, wanted.v) /\ ~actual.v.IsFaild
        THEN [wait |-> TRUE, err |-> FALSE, api |-> api, queried |-> TRUE,
              modified |-> FALSE]
        ELSE IF fault = "modify" \/ call.err
        THEN [wait |-> FALSE, err |-> TRUE, api |-> api, queried |-> TRUE,
              modified |-> TRUE]
        ELSE [wait |-> TRUE, err |-> FALSE, api |-> call.api, queried |-> TRUE,
              modified |-> TRUE]

\* the storage classes the delegate is handed: none, and classes with parameters
EBSClasses ==
    {[nil |-> TRUE, params |-> [k \in {} |-> ""]],
     [nil |-> FALSE, params |-> [k \in {"type"} |-> "gp3"]],
     [nil |-> FALSE, params |-> [k \in {"type", "iops"} |->
                                   IF k = "type" THEN "gp3" ELSE "3000"]],
     [nil |-> FALSE, params |-> [k \in {"iops"} |-> "many"]]}

\* the requested sizes the delegate is handed, in Gi
EBSSizes == {0, 1, 10, 15258, 15259, 16384, 16385}

\* types.VolumeModificationState
ModificationStates == {"modifying", "optimizing", "completed", "failed"}

\* the persistent volume of the claim: pv.Spec.CSI.VolumeHandle
EBSVolume == [handle |-> "vol-1"]

EBSArgs ==
    {[pvc |-> [FreshPVC EXCEPT !.req = n], pv |-> EBSVolume, sc |-> c] :
        n \in EBSSizes, c \in EBSClasses}

\* the modification an earlier call for the arguments a has left with the provider
ModificationFor(a) ==
    LET v == getExpectedVolume(a.pvc, a.pv, a.sc).v
    IN  [VolumeId |-> v.VolumeId, Size |-> v.Size, IOPS |-> v.IOPS,
         Throughput |-> v.Throughput, Type |-> v.Type]

NoEBSRet ==
    [n |-> 0, wait |-> FALSE, err |-> FALSE, queried |-> FALSE, modified |-> FALSE,
     fault |-> "none"]

\* a provider that knows no modification of the volume, or one an earlier call
\* for 10Gi has asked for
InitEBS ==
    /\ pods = NoPods /\ evicting = {} /\ pvcs = [c \in {} |-> NoPVC]
    /\ desired = [mt \in {} |-> <<>>] /\ sts = [mt \in {} |-> 0] /\ tc = NoStatus
    /\ now = 1 /\ ticks = 0 /\ edits = 0 /\ log = IdleLog
    /\ ret = NoEBSRet
    /\ arg \in EBSArgs
    /\ \E vs \in {<<>>} \cup {<<ModificationFor(a)>> :
                                 a \in {x \in EBSArgs : /\ x.pvc.req = 10
                                                        /\ ~getExpectedVolume(x.pvc, x.pv,
                                                                               x.sc).err}},
          s \in ModificationStates :
            ec2 = [vs |-> vs, state |-> [id \in {EBSVolume.handle} |-> s]]

\* one call of the delegate, in which the query or the modify call may fail
EBSModifyVolume ==
    /\ ret.n < MaxPolls
    /\ \E fault \in {"none", "describe", "modify"} :
         \E r \in {ModifyVolume(ec2, arg.pvc, arg.pv, arg.sc, fault)} :
            /\ ec2' = r.api
            /\ ret' = [n |-> ret.n + 1, wait |-> r.wait, err |-> r.err,
                       queried |-> r.queried, modified |-> r.modified, fault |-> fault]
    /\ UNCHANGED <<pods, evicting, pvcs, desired, tc, sts, now, ticks, edits, log, arg>>

\* the provider moves the modification of a volume to another state
ProviderProgress ==
    /\ \E id \in DOMAIN ec2.state : \E s \in ModificationStates :
         /\ s # ec2.state[id]
         /\ ec2' = [ec2 EXCEPT !.state[id] = s]
    /\ UNCHANGED <<pods, evicting, pvcs, desired, tc, sts, now, ticks, edits, log, arg, ret>>

\* the orchestrator comes back with another size or class for the volume
EBSRetarget ==
    /\ edits < MaxEdits
    /\ \E a \in EBSArgs : a # arg /\ arg' = a
    /\ edits' = edits + 1
    /\ UNCHANGED <<pods, evicting, pvcs, desired, tc, sts, now, ticks, log, ret, ec2>>

NextEBS == EBSModifyVolume \/ ProviderProgress \/ EBSRetarget

SpecEBS == InitEBS /\ [][NextEBS]_vars

\* what the delegate is asked to bring the volume to
Wanted == getExpectedVolume(arg.pvc, arg.pv, arg.sc)

\* the provider has a modification of the volume whose target is the wanted one
HasMatching ==
    /\ ~Wanted.err
    /\ \E i \in 1..Len(ec2.vs) :
         /\ ec2.vs[i].VolumeId = arg.pv.handle
         /\ ec2.vs[i].Size = Wanted.v.Size
         /\ ec2.vs[i].IOPS = Wanted.v.IOPS
         /\ ec2.vs[i].Throughput = Wanted.v.Throughput
         /\ ec2.vs[i].Type = Wanted.v.Type

\* the step is a call of the delegate
EBSCalled == ret'.n = ret.n + 1

\* C22: a call that finds a completed modification of the volume with the
\* wanted target (size, IOPS, throughput, type) returns wait=false without an
\* error and issues no modify call.
C22_CompletedMatchIsDone ==
    [][(/\ EBSCalled
        /\ ret'.fault = "none"
        /\ HasMatching
        /\ ec2.state[arg.pv.handle] = "completed") =>
            (~ret'.wait /\ ~ret'.err /\ ~ret'.modified /\ ec2' = ec2)]_vars

\* C23: a call that finds a modification of the volume with the wanted target
\* that is neither completed nor failed returns wait=true and issues no
\* modify call.
C23_ConvergingMatchWaits ==
    [][(/\ EBSCalled
        /\ ret'.fault = "none"
        /\ HasMatching
        /\ ec2.state[arg.pv.handle] \notin {"completed", "failed"}) =>
            (ret'.wait /\ ~ret'.err /\ ~ret'.modified /\ ec2' = ec2)]_vars

\* C24: a call for a valid target that finds no modification of the volume
\* with the wanted target, or a failed one, issues a modify call and returns
\* wait=true; when the modify call fails it returns the error with
\* wait=false, and when the status query fails it returns the error with
\* wait=false and issues no modify call.
C24_NoMatchModifies ==
    [][(/\ EBSCalled
        /\ ~Wanted.err
        /\ ~HasMatching \/ ec2.state[arg.pv.handle] = "failed") =>
            /\ ret'.fault = "describe" => (ret'.err /\ ~ret'.wait /\ ~ret'.modified)
            /\ ret'.fault = "modify" => (ret'.err /\ ~ret'.wait /\ ret'.modified)
            /\ ret'.fault = "none" => (ret'.modified /\ ret'.wait = ~ret'.err)]_vars

\* C25: a call for a claim that requests less than 1 GiB or more than 16384
\* GiB returns an error without a query and without a modify call; a call for
\* a size within these bounds (and a storage class whose parameters parse)
\* goes on to query the provider.
C25_SizeBounds ==
    [][EBSCalled =>
        /\ (arg.pvc.req < minSize \/ arg.pvc.req > maxSize) =>
                (ret'.err /\ ~ret'.queried /\ ~ret'.modified)
        /\ (/\ arg.pvc.req >= minSize
            /\ arg.pvc.req <= maxSize
            /\ ~setArgsFromStorageClass(arg.sc).err) => ret'.queried]_vars

----------------------------------------------------------------------------
(* The desired volumes of a component. *)

\* getStorageClass: [err, sc]; Absent stands for a nil name, the lister knows Classes
getStorageClass(name) ==
    IF name = Absent THEN [err |-> FALSE, sc |-> NilSC]
    ELSE IF name \notin Classes THEN [err |-> TRUE, sc |-> NilSC]
    ELSE [err |-> FALSE, sc |-> SC(name, Provisioner)]

\* v1alpha1.GetStorageVolumeName
GetStorageVolumeName(name, mt) == IF name = "" THEN mt ELSE mt \o "-" \o name

\* a plausible slip: a storage volume whose size does not parse fails the call
RECURSIVE resolveStorageVolumesStrict(_, _, _, _)
resolveStorageVolumesStrict(svs, mt, i, acc) ==
    IF i > Len(svs) THEN [err |-> FALSE, vols |-> acc]
    ELSE LET sv == svs[i]
             quantity == ParseQuantity(sv.storageSize)
             sc == getStorageClass(sv.storageClassName)
         IN  IF ~quantity.ok THEN [err |-> TRUE, vols |-> <<>>]
             ELSE IF sc.err THEN [err |-> TRUE, vols |-> <<>>]
             ELSE resolveStorageVolumesStrict(svs, mt, i + 1,
                      Append(acc, Desired(GetStorageVolumeName(sv.name, mt),
                                          QuantityString(quantity.val), sc.sc)))

RECURSIVE resolveStorageVolumes(_, _, _, _)
\* the loop over the storage volumes, from the i-th on: [err, vols]
resolveStorageVolumes(svs, mt, i, acc) ==
    IF i > Len(svs) THEN [err |-> FALSE, vols |-> acc]
    ELSE LET sv == svs[i]
             quantity == ParseQuantity(sv.storageSize)
             sc == getStorageClass(sv.storageClassName)
         IN  IF ~quantity.ok THEN resolveStorageVolumes(svs, mt, i + 1, acc)
             ELSE IF sc.err THEN [err |-> TRUE, vols |-> <<>>]
             ELSE resolveStorageVolumes(svs, mt, i + 1,
                      Append(acc, Desired(GetStorageVolumeName(sv.name, mt),
                                          QuantityString(quantity.val), sc.sc)))

\* v1alpha1.GetStorageVolumeNameForTiFlash
GetStorageVolumeNameForTiFlash(i) == "data" \o Itoa(i)

RECURSIVE resolveStorageClaims(_, _, _)
\* the loop over the storage claims of TiFlash, from the i-th on: [err, vols]
resolveStorageClaims(claims, i, acc) ==
    IF i > Len(claims) THEN [err |-> FALSE, vols |-> acc]
    ELSE LET sc == getStorageClass(claims[i].storageClassName)
         IN  IF sc.err THEN [err |-> TRUE, vols |-> <<>>]
             ELSE resolveStorageClaims(claims, i + 1,
                      Append(acc, Desired(GetStorageVolumeNameForTiFlash(i - 1),
                                          QuantityString(claims[i].requests), sc.sc)))

\* the member types whose spec has a volume of its own next to the storage volumes
WithOwnVolume == {"pd", "tikv", "pump"}

\* the member types whose spec lists storage volumes
WithStorageVolumes == {"pd", "tidb", "tikv", "ticdc"}

\* [err, vols] for the spec of one component
GetDesiredVolumesForTCComponent(spec, mt) ==
    LET sc == getStorageClass(spec.storageClassName)
        own == IF mt \in WithOwnVolume
               THEN <<Desired(GetStorageVolumeName("", mt), QuantityString(spec.requests),
                              sc.sc)>>
               ELSE <<>>
    IN  IF mt = "tiflash" THEN resolveStorageClaims(spec.storageClaims, 1, <<>>)
        ELSE IF mt \notin WithOwnVolume \cup WithStorageVolumes
        THEN [err |-> TRUE, vols |-> <<>>]
        ELSE IF mt \in WithOwnVolume /\ sc.err THEN [err |-> TRUE, vols |-> <<>>]
        ELSE IF mt \in WithStorageVolumes
        THEN resolveStorageVolumes(spec.storageVolumes, mt, 1, own)
        ELSE [err |-> FALSE, vols |-> own]

\* what a user can write for a storage volume
StorageVolumeInputs ==
    {[name |-> n, storageSize |-> s, storageClassName |-> c] :
        n \in {"log"}, s \in {"10Gi", "20Gi", "ten"}, c \in {Absent, "gp3", "io9"}}

ComponentSpecs ==
    {[storageClassName |-> c, requests |-> q, storageVolumes |-> svs,
      storageClaims |-> cls] :
        c \in {Absent, "gp2", "io9"}, q \in Sizes,
        cls \in {<<[storageClassName |-> "gp2", requests |-> 10]>>,
                 <<[storageClassName |-> Absent, requests |-> 10],
                   [storageClassName |-> "io9", requests |-> 20]>>},
        svs \in {<<>>} \cup {<<a>> : a \in StorageVolumeInputs}
                 \cup {<<a, [b EXCEPT !.name = "raft"]>> :
                          a \in StorageVolumeInputs, b \in StorageVolumeInputs}}

NoResolveRet == [done |-> 0, err |-> FALSE, vols |-> <<>>]

InitResolve ==
    /\ pods = NoPods /\ evicting = {} /\ pvcs = [c \in {} |-> NoPVC]
    /\ desired = [mt \in {} |-> <<>>] /\ sts = [mt \in {} |-> 0] /\ tc = NoStatus
    /\ now = 1 /\ ticks = 0 /\ edits = 0 /\ log = IdleLog /\ ec2 = NoEC2
    /\ ret = NoResolveRet
    /\ \E spec \in ComponentSpecs,
          mt \in {"pd", "tidb", "tikv", "tiflash", "ticdc", "pump", "dm"} :
           arg = [spec |-> spec, mt |-> mt]

\* one call of the resolver
Resolve ==
    /\ ret.done = 0
    /\ \E r \in {GetDesiredVolumesForTCComponent(arg.spec, arg.mt)} :
         ret' = [done |-> 1, err |-> r.err, vols |-> r.vols]
    /\ UNCHANGED <<pods, evicting, pvcs, desired, tc, sts, now, ticks, edits, log, arg, ec2>>

NextResolve == Resolve

SpecResolve == InitResolve /\ [][NextResolve]_vars

\* the storage volumes of the spec the resolver looks at
AuxOf(a) == IF a.mt \in WithStorageVolumes THEN a.spec.storageVolumes ELSE <<>>

\* the storage volumes whose size parses
ParsedAux(a) == SelectSeq(AuxOf(a), LAMBDA sv : ParseQuantity(sv.storageSize).ok)

\* a lookup of a storage class fails: for the volume of the component itself
\* or for a storage volume whose size parses
LookupFails(a) ==
    \/ a.mt \in WithOwnVolume /\ a.spec.storageClassName \notin Classes \cup {Absent}
    \/ /\ a.mt = "tiflash"
       /\ \E i \in 1..Len(a.spec.storageClaims) :
            a.spec.storageClaims[i].storageClassName \notin Classes \cup {Absent}
    \/ \E i \in 1..Len(ParsedAux(a)) :
         ParsedAux(a)[i].storageClassName \notin Classes \cup {Absent}

\* C26: for a supported component the resolver returns an error and no volume
\* when a storage-class lookup fails; otherwise it returns, without an error,
\* the volume of the component itself followed by every storage volume whose
\* size parses, and leaves out those whose size does not parse.
C26_BadSizeSkippedBadClassFatal ==
    (ret.done = 1 /\ arg.mt \in WithOwnVolume \cup WithStorageVolumes \cup {"tiflash"}) =>
        IF LookupFails(arg) THEN ret.err /\ ret.vols = <<>>
        ELSE IF arg.mt = "tiflash"
        THEN ~ret.err /\ Len(ret.vols) = Len(arg.spec.storageClaims)
        ELSE /\ ~ret.err
             /\ LET own == IF arg.mt \in WithOwnVolume THEN 1 ELSE 0
                 IN  /\ Len(ret.vols) = own + Len(ParsedAux(arg))
                     /\ own = 1 => /\ ret.vols[1].name = arg.mt
                                    /\ ret.vols[1].size = QuantityString(arg.spec.requests)
                     /\ \A i \in 1..Len(ParsedAux(arg)) :
                           /\ ret.vols[own + i].name =
                                  arg.mt \o "-" \o ParsedAux(arg)[i].name
                           /\ ret.vols[own + i].size = ParsedAux(arg)[i].storageSize

\* the resolver has skipped a storage volume whose size does not parse and
\* returned the two other volumes of the component
C26_Witness ==
    /\ ret.done = 1
    /\ ~ret.err
    /\ Len(AuxOf(arg)) = 2
    /\ Len(ParsedAux(arg)) = 1
    /\ Len(ret.vols) = 2

----------------------------------------------------------------------------
(* A pod volume that no desired volume names. *)

\* a PD member with the volumes pd and log, in either order, whose spec names
\* no storage volume log; the claim of log carries what an earlier spec left
InitOrphan ==
    /\ InitCommon
    /\ \E p \in {PDPodWithLog("pd-0", <<0>>)} :
         \/ pods = <<p>>
         \/ pods = <<[p EXCEPT !.vols = <<p.vols[2], p.vols[1]>>]>>
    /\ \E a \in AnnoAnnos :
         pvcs = [c \in {"pd-pd-0", "log-pd-0"} |->
                    IF c = "pd-pd-0" THEN FreshPVC ELSE [FreshPVC EXCEPT !.anno = a]]
    /\ \E a \in Targets : desired = [mt \in {"pd"} |-> <<Desired("pd", a.size, a.sc)>>]
    /\ sts = [mt \in {"pd"} |-> FreshSTS(<<"pd">>)]
    /\ tc = [components |-> <<"pd">>, phase |-> "Normal", cond |-> "",
             stores |-> [p \in {} |-> 0], evictLeader |-> [p \in {} |-> 0],
             evictLeaderTimeout |-> EvictLeaderTimeout]

NextOrphan == SyncPassOK \/ RecreateSTS \/ ResizeFS

SpecOrphan == InitOrphan /\ [][NextOrphan]_vars

\* C27: a pass over a pod with a claim-backed volume that no desired volume
\* names does not stop on it: it makes no call for the claim of that volume
\* and leaves it as it is, and it attempts the other volume of the pod when
\* that volume has something to do.
C27_UnmatchedVolumeSkipped ==
    [][(log'.ran /\ sts["pd"].present /\ sts'["pd"].present) =>
        /\ ~log'.dead
        /\ ~AttemptedClaim(log', "log-pd-0")
        /\ pvcs'["log-pd-0"] = pvcs["log-pd-0"]
        /\ HasWork([name |-> "pd", claim |-> "pd-pd-0"]) =>
                AttemptedClaim(log', "pd-pd-0")]_vars

----------------------------------------------------------------------------
(* The order in which a pass visits the pods. *)

\* the ordinals of the PD members: one and two digits
PodNames == {<<2>>, <<9>>, <<1, 0>>, <<1, 1>>}

PodID(name) ==
    IF name = <<2>> THEN "pd-2"
    ELSE IF name = <<9>> THEN "pd-9"
    ELSE IF name = <<1, 0>> THEN "pd-10"
    ELSE "pd-11"

\* a PD member with one claim-backed volume
PDMember(name) ==
    [id |-> PodID(name), name |-> name, mt |-> "pd",
     vols |-> <<[name |-> "pd", claim |-> "pd-" \o PodID(name)]>>]

\* the orders in which the lister can return the pods of S
Listings(S) ==
    {q \in [1..Cardinality(S) -> S] : \A i, j \in DOMAIN q : i # j => q[i] # q[j]}

\* three PD members, listed in any order
InitOrder ==
    /\ InitCommon
    /\ \E N \in SUBSET PodNames :
         /\ Cardinality(N) = 3
         /\ \E q \in Listings({PDMember(n) : n \in N}) : pods = q
         /\ pvcs = [c \in {"pd-" \o PodID(n) : n \in N} |-> FreshPVC]
    /\ \E a \in Targets : desired = [mt \in {"pd"} |-> <<Desired("pd", a.size, a.sc)>>]
    /\ sts = [mt \in {"pd"} |-> FreshSTS(<<"pd">>)]
    /\ tc = [components |-> <<"pd">>, phase |-> "Normal", cond |-> "",
             stores |-> [p \in {} |-> 0], evictLeader |-> [p \in {} |-> 0],
             evictLeaderTimeout |-> EvictLeaderTimeout]

\* the lister returns the same pods in another order
Relist ==
    /\ \E q \in Listings({pods[i] : i \in DOMAIN pods}) : q # pods /\ pods' = q
    /\ log' = IdleLog
    /\ UNCHANGED <<evicting, pvcs, desired, tc, sts, now, ticks, edits, arg, ret, ec2>>

\* a pass without a failing call; the delegate gives every volume the same answer
SyncPassSame == SyncPassWith({[c \in DOMAIN pvcs |-> r] : r \in {"wait", "done"}}, {NoFault})

NextOrder == SyncPassSame \/ Relist \/ RecreateSTS \/ ResizeFS

SpecOrder == InitOrder /\ [][NextOrder]_vars

\* the name a comes before the name b: shorter first, and among names of one
\* length the one with the smaller digit at the first place they differ
NameBefore(a, b) ==
    \/ Len(a) < Len(b)
    \/ /\ Len(a) = Len(b)
       /\ \E i \in 1..Len(a) : a[i] < b[i] /\ \A j \in 1..(i - 1) : a[j] = b[j]

\* the name of the listed pod with the id p
NameOfPod(p) == (CHOOSE q \in {pods[i] : i \in DOMAIN pods} : q.id = p).name

\* the pods a pass has made calls for, in the order of the calls
PodEvents(l) == SelectSeq(l.events, LAMBDA e : \E i \in DOMAIN pods : pods[i].id = e.pod)

\* C28: the pods of a component are visited by increasing name length and,
\* among names of one length, in lexicographic order, whatever the order in
\* which they are listed: the order of visit holds every listed pod once, is
\* the same for every listing of the same pods, and the calls of a pass
\* follow it.
C28_VisitOrderByLengthThenName ==
    LET order == getPodsOfComponent("pd")
    IN  /\ Len(order) = Len(pods)
        /\ {order[i] : i \in DOMAIN order} = {pods[i] : i \in DOMAIN pods}
        /\ \A i, j \in DOMAIN order : i < j => NameBefore(order[i].name, order[j].name)
        /\ \A q \in Listings({pods[i] : i \in DOMAIN pods}) : SortPods(q) = order
        /\ log.ran =>
             \A j, k \in DOMAIN PodEvents(log) :
                 (j < k /\ PodEvents(log)[j].pod # PodEvents(log)[k].pod) =>
                     NameBefore(NameOfPod(PodEvents(log)[j].pod),
                                NameOfPod(PodEvents(log)[k].pod))

\* a pass has made calls for three pods whose names have one and two digits
\* and which were listed with a two-digit name first
C28_Witness ==
    /\ log.ran
    /\ Len(pods[1].name) = 2
    /\ \E i \in DOMAIN pods : Len(pods[i].name) = 1
    /\ \A i \in DOMAIN pods : \E j \in DOMAIN log.events : log.events[j].pod = pods[i].id

----------------------------------------------------------------------------
(* A pod whose volumes are in different phases. *)

\* a PD member with the volumes pd and log, each with a target of its own;
\* the volume log is to grow
InitMixed ==
    /\ InitCommon
    /\ pods = <<PDPodWithLog("pd-0", <<0>>)>>
    /\ pvcs = [c \in {"pd-pd-0", "log-pd-0"} |-> FreshPVC]
    /\ \E a \in Targets : \E b \in {t \in Targets : ParseQuantity(t.size).val > FreshPVC.req} :
         desired = [mt \in {"pd"} |-> <<Desired("pd", a.size, a.sc),
                                        Desired("log", b.size, b.sc)>>]
    /\ sts = [mt \in {"pd"} |-> FreshSTS(<<"pd", "log">>)]
    /\ tc = [components |-> <<"pd">>, phase |-> "Normal", cond |-> "",
             stores |-> [p \in {} |-> 0], evictLeader |-> [p \in {} |-> 0],
             evictLeaderTimeout |-> EvictLeaderTimeout]

\* the clock advances by the whole cooldown of the delegate
TickCooldown ==
    /\ ticks < MaxTicks
    /\ now' = now + defaultWaitDuration
    /\ ticks' = ticks + 1
    /\ log' = IdleLog
    /\ UNCHANGED <<pods, evicting, pvcs, desired, tc, sts, edits, arg, ret, ec2>>

NextMixed == SyncPassOK \/ TickCooldown \/ EditDesired \/ RecreateSTS \/ ResizeFS

SpecMixed == InitMixed /\ [][NextMixed]_vars

\* C29: a pass takes no action for a volume it finds Pending or Modified: the
\* claim of the volume, its annotations and its requested size included, is
\* after the pass what it was before, and the pass has made no call for it,
\* neither an update of the claim nor a call of the delegate.
C29_PendingAndModifiedUntouched ==
    [][log'.ran =>
        \A c \in DOMAIN pvcs :
            PhaseOf(c) \in {VolumePhasePending, VolumePhaseModified} =>
                /\ pvcs'[c] = pvcs[c]
                /\ ~AttemptedClaim(log', c)]_vars

\* a pass has called Modify for a pod and made calls for its volume log while
\* its volume pd, which has a target it does not meet, is Pending
C29_Witness ==
    /\ log.ran
    /\ AttemptedPod(log, "pd-0")
    /\ AttemptedClaim(log, "log-pd-0")
    /\ ~AttemptedClaim(log, "pd-pd-0")
    /\ PhaseOf("pd-pd-0") = VolumePhasePending

----------------------------------------------------------------------------
(* The last-transition timestamp and the eviction of the leader. *)

\* a PD member and a TiKV member with one target for their volumes
InitBoth ==
    /\ InitCommon
    /\ pods = <<PDPod, TiKVPod("tikv-2", <<2>>)>>
    /\ pvcs = [c \in {"pd-pd-0", "tikv-tikv-2"} |-> FreshPVC]
    /\ \E a \in Targets :
         desired = [mt \in {"pd", "tikv"} |-> <<Desired(mt, a.size, a.sc)>>]
    /\ sts = [mt \in {"pd", "tikv"} |-> FreshSTS(<<mt>>)]
    /\ \E ids \in SUBSET {"tikv-2"} :
         \E st \in [ids -> StoreStatuses] :
           tc = [components |-> <<"pd", "tikv">>, phase |-> "Normal", cond |-> "",
                 stores |-> st, evictLeader |-> [p \in {} |-> [beginTime |-> 0]],
                 evictLeaderTimeout |-> EvictLeaderTimeout]

NextBoth ==
    \/ SyncPassSame \/ Tick \/ RecreateSTS \/ ResizeFS
    \/ StoreStatus \/ BeginEvictLeader \/ EndEvictLeader

SpecBoth == InitBoth /\ [][NextBoth]_vars

\* the last-transition timestamp a claim carries, or Absent
TsOf(pvc) ==
    IF Has(pvc.anno, annoKeyPVCLastTransitionTimestamp)
    THEN pvc.anno[annoKeyPVCLastTransitionTimestamp]
    ELSE Absent

\* the store of the pod p reports leaders and the eviction of p has not timed out
LeaderResident(p) ==
    /\ p \in DOMAIN tc.stores
    /\ tc.stores[p].leaderCount > 0
    /\ ~(/\ p \in DOMAIN tc.evictLeader
         /\ tc.evictLeader[p].beginTime # 0
         /\ now - tc.evictLeader[p].beginTime > tc.evictLeaderTimeout)

----------------------------------------------------------------------------
(* The cooldown of the delegate of a storage class. *)

NoWaitProvisioner == "no.wait.time.sc"

\* the registry of TestGetVolumePhase: delegates by provisioner, one without cooldown
TestModifiers ==
    [x \in {Provisioner, NoWaitProvisioner} |->
        IF x = Provisioner THEN defaultWaitDuration ELSE 0]

\* desired volumes whose class is of either provisioner, or without a class
CooldownDesired ==
    {Desired("pd", QuantityString(q), SC(c, pr)) :
        q \in Sizes, c \in Classes, pr \in {Provisioner, NoWaitProvisioner}}
        \cup {Desired("pd", QuantityString(q), NilSC) : q \in Sizes}

InitCooldown ==
    /\ pods = NoPods /\ evicting = {} /\ pvcs = [c \in {} |-> NoPVC]
    /\ desired = [mt \in {} |-> <<>>] /\ sts = [mt \in {} |-> 0] /\ tc = NoStatus
    /\ now = 1 /\ ticks = 0 /\ edits = 0 /\ log = IdleLog /\ ret = NoRet /\ ec2 = NoEC2
    /\ \E a \in PhaseAnnos, d \in CooldownDesired, t \in Clocks,
          m \in {Modifiers, TestModifiers, [x \in {} |-> 0]} :
           arg = [pvc |-> [anno |-> a, req |-> 10, scName |-> "gp2", cap |-> 10],
                  d |-> d, t |-> t, modifiers |-> m]

NextCooldown == Classify

SpecCooldown == InitCooldown /\ [][NextCooldown]_vars

\* the delegate the registry of a holds for the provisioner of the desired class
DelegateResolved(a) ==
    ~a.d.sc.nil /\ a.d.sc.provisioner \in DOMAIN a.modifiers

\* the cooldown that applies to the claim of a
CooldownOf(a) ==
    IF DelegateResolved(a) THEN a.modifiers[a.d.sc.provisioner]
    ELSE defaultModifyWaitingDuration

\* the claim of a was stamped less than the cooldown ago
CoolingDown(a) ==
    /\ Has(a.pvc.anno, annoKeyPVCLastTransitionTimestamp)
    /\ ParseRFC3339(a.pvc.anno[annoKeyPVCLastTransitionTimestamp]).ok
    /\ a.t - ParseRFC3339(a.pvc.anno[annoKeyPVCLastTransitionTimestamp]).val < CooldownOf(a)

\* C31: a claim is classified Pending only while less time than the
\* MinWaitDuration of the delegate of the desired class's provisioner has
\* passed since its timestamp, and Preparing only when that time has passed;
\* the default threshold counts only when no delegate is resolved.  A claim
\* whose delegate declares no cooldown is never Pending.
C31_CooldownOfSelectedDelegate ==
    ret.done = 1 =>
        /\ ret.phase = VolumePhasePending => CoolingDown(arg)
        /\ ret.phase = VolumePhasePreparing => ~CoolingDown(arg)

----------------------------------------------------------------------------
(* The requested size and the status snapshot. *)

\* the j-th call of the pass l is a delegate call for c that answered wait=false
DelegateDoneAt(l, c, j) ==
    /\ l.events[j].op = "delegate"
    /\ l.events[j].claim = c
    /\ l.events[j].res = "done"

\* C32: a pass changes the requested size of a claim only after the delegate
\* has answered wait=false for it in that pass, and such a pass leaves the
\* status snapshot of the claim as it was; a pass changes the status snapshot
\* of a claim only when it finds the requested size and the reported capacity
\* of the claim both equal to the desired size.
C32_SizeAfterDelegateStatusLater ==
    [][log'.ran =>
        \A c \in DOMAIN pvcs :
            /\ pvcs'[c].req # pvcs[c].req =>
                 /\ \E j, k \in 1..Len(log'.events) :
                       /\ j < k
                       /\ DelegateDoneAt(log', c, j)
                       /\ log'.events[k].op = "size"
                       /\ log'.events[k].claim = c
                 /\ StatusSnapshot(pvcs'[c]) = StatusSnapshot(pvcs[c])
            /\ StatusSnapshot(pvcs'[c]) # StatusSnapshot(pvcs[c]) =>
                 /\ QuantityString(pvcs[c].req) = DesiredFor(c).size
                 /\ QuantityString(pvcs[c].cap) = DesiredFor(c).size
                 /\ pvcs'[c].req = pvcs[c].req]_vars

\* a pass has changed the requested size of the claim after the delegate
\* answered wait=false, and the claim has no status snapshot yet
C32_Witness ==
    /\ log.ran
    /\ \E j, k \in 1..Len(log.events) :
          /\ j < k
          /\ DelegateDoneAt(log, "pd-pd-0", j)
          /\ log.events[k].op = "size"
          /\ log.events[k].claim = "pd-pd-0"
          /\ log.events[k].res = "ok"
    /\ pvcs["pd-pd-0"].req > pvcs["pd-pd-0"].cap
    /\ ~Has(pvcs["pd-pd-0"].anno, annoKeyPVCStatusRevision)

----------------------------------------------------------------------------
(* What the Preparing snapshot writes. *)

\* the annotation k of a claim, or Absent
AnnoOf(pvc, k) == IF Has(pvc.anno, k) THEN pvc.anno[k] ELSE Absent

\* the member type of the listed pod with the id p
MemberTypeOf(p) == (CHOOSE q \in {pods[i] : i \in DOMAIN pods} : q.id = p).mt

\* C33: the update that writes the Preparing snapshot of a claim changes only
\* the three spec annotations and, for a component without leader eviction,
\* the timestamp: the status annotations, the requested size, the capacity and
\* the class of the claim stay as they were.  On a claim without annotations
\* whose size differs from the desired size it sets spec-revision to 1 and
\* spec-size to the desired size, with the status annotations still absent.
C33_SnapshotWritesSpecOnly ==
    [][log'.ran =>
        \A j \in 1..Len(log'.events) :
            LET e == log'.events[j]
                old == pvcs[e.claim]
            IN  (e.op = "spec" /\ e.res = "ok") =>
                  /\ e.pvc.req = old.req
                  /\ e.pvc.cap = old.cap
                  /\ e.pvc.scName = old.scName
                  /\ StatusSnapshot(e.pvc) = StatusSnapshot(old)
                  /\ \A k \in (DOMAIN old.anno \cup DOMAIN e.pvc.anno)
                                \ {annoKeyPVCSpecRevision, annoKeyPVCSpecStorageClass,
                                   annoKeyPVCSpecStorageSize,
                                   annoKeyPVCLastTransitionTimestamp} :
                         AnnoOf(e.pvc, k) = AnnoOf(old, k)
                  /\ IF MemberTypeOf(e.pod) = "tikv"
                     THEN AnnoOf(e.pvc, annoKeyPVCLastTransitionTimestamp)
                              = AnnoOf(old, annoKeyPVCLastTransitionTimestamp)
                     ELSE AnnoOf(e.pvc, annoKeyPVCLastTransitionTimestamp)
                              = FormatRFC3339(now)
                  /\ (old.anno = NoAnno /\ QuantityString(old.req) # DesiredFor(e.claim).size) =>
                         /\ AnnoOf(e.pvc, annoKeyPVCSpecRevision) = "1"
                         /\ AnnoOf(e.pvc, annoKeyPVCSpecStorageSize) = DesiredFor(e.claim).size
                         /\ AnnoOf(e.pvc, annoKeyPVCSpecStorageClass)
                                = desiredScName(DesiredFor(e.claim))
                         /\ AnnoOf(e.pvc, annoKeyPVCStatusRevision) = Absent
                         /\ AnnoOf(e.pvc, annoKeyPVCStatusStorageSize) = Absent
                         /\ AnnoOf(e.pvc, annoKeyPVCStatusStorageClass) = Absent]_vars

\* Modify has written the snapshot of a claim that had no annotations and asked
\* for 10Gi with 20Gi desired, and has left it there: revision 1, size 20Gi,
\* no status, 10Gi still requested
C33_Witness ==
    /\ log.ran
    /\ log.events[1].op = "spec"
    /\ log.events[1].res = "ok"
    /\ AnnoOf(pvcs["test-pvc"], annoKeyPVCSpecRevision) = "1"
    /\ AnnoOf(pvcs["test-pvc"], annoKeyPVCSpecStorageSize) = "20Gi"
    /\ AnnoOf(pvcs["test-pvc"], annoKeyPVCStatusRevision) = Absent
    /\ pvcs["test-pvc"].req = 10

----------------------------------------------------------------------------
(* A component whose context cannot be built. *)

\* a pass without a failing update in which the desired volumes or the pods
\* of the components in nobuild cannot be read
SyncPassBuild ==
    \E dres \in {[c \in DOMAIN pvcs |-> r] : r \in {"wait", "done"}},
       nobuild \in SUBSET {"pd", "tikv"} :
        LET s0 == [pvcs |-> pvcs, evicting |-> evicting, cond |-> tc.cond, sts |-> sts,
                   n |-> 0, dead |-> FALSE, events |-> <<>>]
        IN  \E r \in {Sync(s0, [dres |-> dres, fault |-> NoFault, nobuild |-> nobuild])} :
            /\ pvcs' = r.s.pvcs
            /\ evicting' = r.s.evicting
            /\ sts' = r.s.sts
            /\ tc' = [tc EXCEPT !.cond = IF r.s.dead THEN @ ELSE r.s.cond]
            /\ log' = [ran |-> TRUE, events |-> r.s.events, errs |-> r.errs,
                       dead |-> r.s.dead]
            /\ UNCHANGED <<pods, desired, now, ticks, edits, arg, ret, ec2>>

NextBuild ==
    \/ SyncPassBuild \/ RecreateSTS \/ ResizeFS
    \/ StoreStatus \/ BeginEvictLeader \/ EndEvictLeader

SpecBuild == InitBoth /\ [][NextBuild]_vars

\* the pass l could not build the context of the component mt
BuildFailed(l, mt) ==
    \E j \in 1..Len(l.events) : l.events[j].op = "build" /\ l.events[j].res = mt

\* the pass l has worked on the component mt: it has deleted its StatefulSet,
\* made a call for one of its pods or changed the leader-eviction condition
Processed(l, mt) ==
    \/ sts[mt].present /\ ~sts'[mt].present
    \/ \E j \in 1..Len(l.events) : \E i \in DOMAIN pods :
          pods[i].mt = mt /\ l.events[j].pod = pods[i].id
    \/ mt = "tikv" /\ tc'.cond # tc.cond

\* the component mt has something for a pass to do
HasWorkFor(mt) ==
    /\ sts[mt].present
    /\ \/ TemplateDiffers(mt)
       \/ \E i \in DOMAIN pods : pods[i].mt = mt /\
             \E k \in DOMAIN pods[i].vols :
                pods[i].vols[k].claim # "" /\ HasWork(pods[i].vols[k])

\* C34: a pass that cannot build the context of a component ends with an
\* error for that component in its result, and works on every other component
\* of the cluster that has something to do.
C34_BuildErrorRecordedOthersProcessed ==
    [][log'.ran =>
        \A mt \in {"pd", "tikv"} :
            BuildFailed(log', mt) =>
                /\ ~log'.dead
                /\ \E k \in 1..Len(log'.errs) : log'.errs[k].mt = mt
                /\ \A other \in {"pd", "tikv"} \ {mt} :
                      (HasWorkFor(other) /\ ~BuildFailed(log', other)) =>
                          Processed(log', other)]_vars

----------------------------------------------------------------------------
(* The pod task of a PD instance, as TestTaskPod runs it: one instance, its *)
(* pod, the other instances of the group and a fake PD client.  The task   *)
(* itself is modelled from what the cases of the test expect of it.        *)

SWait == "Wait"
SFail == "Fail"
SComplete == "Complete"

\* how the pod at hand compares with the pod the instance asks for
PodChanges == {"spec", "configRestart", "configHotReload", "labels", "none"}

\* the other instances of the group, each healthy or not
PeerSets ==
    {<<>>,
     <<[name |-> "aaa-yyy", healthy |-> TRUE]>>,
     <<[name |-> "aaa-yyy", healthy |-> FALSE]>>,
     <<[name |-> "aaa-yyy", healthy |-> FALSE], [name |-> "aaa-zzz", healthy |-> TRUE]>>}

\* the states the cases of the test put the task in; fault makes the calls of
\* the client (patch, delete) or of the PD client (transfer) return an error
PodTaskInputs ==
    [pod : BOOLEAN, change : PodChanges, healthy : BOOLEAN, isLeader : BOOLEAN,
     pds : PeerSets, fault : {"none", "client", "transfer"}]

NoPodTaskRet ==
    [done |-> 0, status |-> "", terminating |-> FALSE, deleted |-> FALSE,
     updated |-> FALSE, refreshed |-> FALSE, transferTo |-> ""]

\* the healthy instance of the group, other than the one at hand, the leader
\* is transferred to; "" when there is none
Transferee(pds) ==
    IF \E i \in 1..Len(pds) : pds[i].healthy
    THEN pds[CHOOSE i \in 1..Len(pds) :
                 pds[i].healthy /\ \A j \in 1..(i - 1) : ~pds[j].healthy].name
    ELSE ""

\* a plausible slip: the leader is not looked at before the pod is deleted
preDeleteCheckNone(in) == [wait |-> FALSE, err |-> FALSE, transferTo |-> ""]

\* what precedes the deletion of the pod of a healthy instance: [wait, err, transferTo]
preDeleteCheck(in) ==
    IF ~in.isLeader THEN [wait |-> FALSE, err |-> FALSE, transferTo |-> ""]
    ELSE IF Transferee(in.pds) = "" THEN [wait |-> FALSE, err |-> TRUE, transferTo |-> ""]
    ELSE IF in.fault = "transfer"
    THEN [wait |-> FALSE, err |-> TRUE, transferTo |-> Transferee(in.pds)]
    ELSE [wait |-> TRUE, err |-> FALSE, transferTo |-> Transferee(in.pds)]

\* the pod is to be recreated: its spec changed, or its config changed under
\* the restart policy
NeedsRecreate(in) == in.change \in {"spec", "configRestart"}

\* TaskPod(state, c) run once
TaskPod(in) ==
    IF ~in.pod
    THEN IF in.healthy
         THEN [NoPodTaskRet EXCEPT !.done = 1, !.status = SWait, !.refreshed = TRUE]
         ELSE IF in.fault = "client"
         THEN [NoPodTaskRet EXCEPT !.done = 1, !.status = SFail]
         ELSE [NoPodTaskRet EXCEPT !.done = 1, !.status = SComplete, !.updated = TRUE]
    ELSE IF NeedsRecreate(in)
    THEN LET pre == IF in.healthy THEN preDeleteCheck(in)
                    ELSE [wait |-> FALSE, err |-> FALSE, transferTo |-> ""]
         IN  IF pre.err
             THEN [NoPodTaskRet EXCEPT !.done = 1, !.status = SFail,
                                       !.transferTo = pre.transferTo]
             ELSE IF pre.wait
             THEN [NoPodTaskRet EXCEPT !.done = 1, !.status = SWait,
                                       !.transferTo = pre.transferTo]
             ELSE IF in.fault = "client"
             THEN [NoPodTaskRet EXCEPT !.done = 1, !.status = SFail]
             ELSE [NoPodTaskRet EXCEPT !.done = 1, !.status = SWait, !.deleted = TRUE,
                                       !.terminating = TRUE]
    ELSE IF in.change \in {"configHotReload", "labels"}
    THEN IF in.fault = "client"
         THEN [NoPodTaskRet EXCEPT !.done = 1, !.status = SFail]
         ELSE [NoPodTaskRet EXCEPT !.done = 1, !.status = SComplete, !.updated = TRUE]
    ELSE [NoPodTaskRet EXCEPT !.done = 1, !.status = SComplete]

InitPodTask ==
    /\ pods = NoPods /\ evicting = {} /\ pvcs = [c \in {} |-> NoPVC]
    /\ desired = [mt \in {} |-> <<>>] /\ sts = [mt \in {} |-> 0] /\ tc = NoStatus
    /\ now = 1 /\ ticks = 0 /\ edits = 0 /\ log = IdleLog /\ ec2 = NoEC2
    /\ ret = NoPodTaskRet
    /\ \E in \in PodTaskInputs : arg = in

\* task.RunTask(ctx, TaskPod(c.state, fc))
RunTaskPod ==
    /\ ret.done = 0
    /\ ret' = TaskPod(arg)
    /\ UNCHANGED <<pods, evicting, pvcs, desired, tc, sts, now, ticks, edits, log, arg, ec2>>

NextPodTask == RunTaskPod

SpecPodTask == InitPodTask /\ [][NextPodTask]_vars

----------------------------------------------------------------------------
(* The upgrade of TiKV. *)

\* the cluster of InitBoth, TiKV upgrading or not
InitUpgrade ==
    /\ InitCommon
    /\ pods = <<PDPod, TiKVPod("tikv-2", <<2>>)>>
    /\ pvcs = [c \in {"pd-pd-0", "tikv-tikv-2"} |-> FreshPVC]
    /\ \E a \in Targets :
         desired = [mt \in {"pd", "tikv"} |-> <<Desired(mt, a.size, a.sc)>>]
    /\ sts = [mt \in {"pd", "tikv"} |-> FreshSTS(<<mt>>)]
    /\ \E ids \in SUBSET {"tikv-2"} : \E ph \in {"Normal", "Upgrade"} :
         \E st \in [ids -> StoreStatuses] :
           tc = [components |-> <<"pd", "tikv">>, phase |-> ph, cond |-> "",
                 stores |-> st, evictLeader |-> [p \in {} |-> [beginTime |-> 0]],
                 evictLeaderTimeout |-> EvictLeaderTimeout]

\* the TiKV manager begins or ends the upgrade of TiKV
TiKVPhase ==
    /\ \E ph \in {"Normal", "Upgrade"} : ph # tc.phase /\ tc' = [tc EXCEPT !.phase = ph]
    /\ log' = IdleLog
    /\ UNCHANGED <<pods, evicting, pvcs, desired, sts, now, ticks, edits, arg, ret, ec2>>

NextUpgrade ==
    \/ SyncPassSame \/ TickCooldown \/ RecreateSTS \/ ResizeFS
    \/ StoreStatus \/ BeginEvictLeader \/ EndEvictLeader \/ TiKVPhase

SpecUpgrade == InitUpgrade /\ [][NextUpgrade]_vars

\* the claims of the pods of the component mt
ClaimsOf(mt) ==
    {c \in DOMAIN pvcs : \E i \in DOMAIN pods : \E k \in DOMAIN pods[i].vols :
                            pods[i].mt = mt /\ pods[i].vols[k].claim = c}

\* C36: a pass that runs while TiKV is in the Upgrade phase leaves the
\* StatefulSet of TiKV, the evicting markers of its pods, the leader-eviction
\* condition and its claims as they are and makes no call for a TiKV pod,
\* the delegate included; PD, when it has something to do, is worked on in
\* that pass.
C36_UpgradingTiKVUntouched ==
    [][(log'.ran /\ tc.phase = "Upgrade") =>
          /\ sts'["tikv"] = sts["tikv"]
          /\ evicting' = evicting
          /\ tc'.cond = tc.cond
          /\ \A c \in ClaimsOf("tikv") : pvcs'[c] = pvcs[c]
          /\ \A j \in 1..Len(log'.events) :
                /\ log'.events[j].claim \notin ClaimsOf("tikv")
                /\ \A i \in DOMAIN pods :
                      pods[i].mt = "tikv" => log'.events[j].pod # pods[i].id
          /\ HasWorkFor("pd") => Processed(log', "pd")]_vars

\* a pass has run while TiKV was upgrading with its volume short of the
\* target, its pod marked and the condition True: it has called the delegate
\* for the claim of PD and has left TiKV alone
C36_Witness ==
    /\ log.ran
    /\ tc.phase = "Upgrade"
    /\ tc.cond = "True"
    /\ "tikv-2" \in evicting
    /\ HasWork([claim |-> "tikv-tikv-2", desired |-> desired["tikv"][1]])
    /\ DelegateCalled(log)
    /\ AttemptedClaim(log, "pd-pd-0")
    /\ ~AttemptedClaim(log, "tikv-tikv-2")

----------------------------------------------------------------------------
(* The evicting marker and the leader-eviction condition. *)

\* C37: whenever a pod of TiKV carries the evicting marker, the
\* leader-eviction condition of the cluster is True.
C37_MarkedImpliesConditionTrue ==
    evicting # {} => tc.cond = "True"

----------------------------------------------------------------------------
(* The target handed to the delegate. *)

\* C38: every call of the delegate for a claim is made with the size and the
\* class that the spec snapshot of the claim holds at that moment.
C38_DelegateGetsSnapshot ==
    [][log'.ran =>
        \A j \in 1..Len(log'.events) :
            log'.events[j].op = "delegate" =>
                /\ log'.events[j].size =
                       SpecSnapshot(log'.events[j].pvc)[annoKeyPVCSpecStorageSize]
                /\ log'.events[j].sc =
                       SpecSnapshot(log'.events[j].pvc)[annoKeyPVCSpecStorageClass]]_vars

----------------------------------------------------------------------------
(* The two revisions of a claim. *)

\* the status revision of a claim as a number, 0 when the claim has none
StatusRev(pvc) ==
    IF Has(pvc.anno, annoKeyPVCStatusRevision)
    THEN Atoi(pvc.anno[annoKeyPVCStatusRevision]).val
    ELSE 0

\* the revisions of the claim are numerals and the status revision is not
\* ahead of the spec revision
RevisionsInOrder(pvc) ==
    /\ Has(pvc.anno, annoKeyPVCSpecRevision) => Atoi(pvc.anno[annoKeyPVCSpecRevision]).ok
    /\ Has(pvc.anno, annoKeyPVCStatusRevision) =>
          Atoi(pvc.anno[annoKeyPVCStatusRevision]).ok
    /\ StatusRev(pvc) <= Rev(pvc)

----------------------------------------------------------------------------
(* The pass that changes the leader-eviction condition. *)

\* C40: a pass that changes the leader-eviction condition ends with that
\* change: the change is the last thing the pass does for TiKV, no evicting
\* marker is set or removed and no claim is updated after it, and the pass
\* returns an error for TiKV; a pass that marks a pod evicting has found the
\* condition True when it started.
C40_ConditionFlipEndsPass ==
    [][log'.ran =>
        /\ \A j \in 1..Len(log'.events) :
              log'.events[j].op = "cond" =>
                  /\ j = Len(log'.events)
                  /\ \E k \in 1..Len(log'.errs) : log'.errs[k].mt = "tikv"
        /\ tc'.cond # tc.cond =>
              /\ Len(log'.events) > 0
              /\ log'.events[Len(log'.events)].op = "cond"
              /\ log'.events[Len(log'.events)].res = tc'.cond
        /\ (evicting' \ evicting) # {} => (tc.cond = "True" /\ tc'.cond = "True")]_vars

\* a pass over two TiKV pods has completed the claim of a pod that was marked
\* evicting and whose leaders were gone, and has then lowered the condition:
\* the change is its last event
C40_Witness ==
    /\ log.ran
    /\ evicting # {}
    /\ Len(log.events) > 1
    /\ log.events[Len(log.events)].op = "cond"
    /\ log.events[Len(log.events)].res = "False"
    /\ tc.cond = "False"
    /\ \E j \in 1..(Len(log.events) - 1) : log.events[j].op = "status"

====
